---- MODULE Spec2Model ----
(***************************************************************************)
(* law-listener: the proposal ingestion-and-linking pipeline's edge        *)
(* functions (ingest-stortinget, match-and-link-laws,                      *)
(* generate-proposal-summary) and their shared helpers, as state machines. *)
(*                                                                         *)
(* Each subsystem has its own variables, its own Init/Next and its own     *)
(* specification; a specification keeps the other subsystems idle.         *)
(***************************************************************************)
EXTENDS Integers, Sequences, FiniteSets, TLC

VARIABLES
    \* ---- fetchProposalSource (generate-proposal-summary) ----
    fLink,      \* proposal.stortinget_link: a URL or NoValue
    fpc,        \* position of fetchProposalSource
    ftimer,     \* whether a withTimeout timer is armed for the pending fetch
    issued,     \* the fetches issued so far, in order
    jinaBody,   \* the body the proxy delivered (NoValue: none was read)
    directBody, \* the html the source site delivered (NoValue: none was read)
    jinaErr,    \* the classified code attempt 1 failed with, or NoError
    fresult,    \* the SourceResult returned, or NoValue
    ferror,     \* the code of the error thrown, or NoError
    \* ---- withTimeout (shared/logger.ts and ingest-stortinget's own) ----
    wtImpl,     \* which withTimeout the current call runs: "shared" or "local"
    wtPc,       \* "idle", "racing" (awaiting Promise.race) or "returned"
    wtPromise,  \* the raced operation: "pending", "resolved" or "rejected"
    wtTimers,   \* ids of the timers that are set and have neither fired nor been cleared
    wtCalls,    \* calls made so far; the current call's timer has this id
    wtOutcome,  \* how the current call ended, or NoValue
    \* ---- storage: public.law_proposals ----
    law_proposals, \* the rows, in insertion order
    \* ---- ingest-stortinget handler ----
    ireq,       \* the request being served
    ipc,        \* "idle", "await_upsert" (inside withTimeout(upsert)) or "responded"
    ii,         \* the loop variable i + 1 (0 outside the loop)
    succeeded,  \* the handler's counter
    failures,   \* the handler's FailedItem list
    ilog,       \* per attempted item: what its upsert did and how it was accounted
    iresponse,  \* the response sent, or NoValue
    \* ---- storage: public.proposal_targets ----
    proposal_targets, \* how many rows hold each (proposal_id, document_id) pair
    \* ---- match-and-link-laws handler ----
    mreq,       \* the request being served
    mpc,        \* "idle", "await_mark", "await_docs", "await_link" or "responded"
    mdocs,      \* documents: the ids the select returned
    mlink,      \* what the last proposal_targets upsert met: applied, conflicts
    mresponse,  \* the response sent, or NoValue
    \* ---- payload.ts: normalizeEnforcementDate ----
    nvalue,     \* the value it is applied to
    nresult,    \* what it returned (NoValue: not applied yet)
    \* ---- isValidIsoDate (payload.ts) and isIsoDate (web lib/query.ts) ----
    dvalue,     \* the string both are applied to
    dresult,    \* what each returned (NoValue: not applied yet)
    \* ---- the error classifiers of the edge functions ----
    cerror,     \* the error object they are given
    cstatus,    \* the HTTP status classifyOpenAiHttpStatus is given
    cresult,    \* what each classifier returned (NoValue: not applied yet)
    \* ---- feed poller (stortinget-rss-worker) ----
    feed,       \* the feed as the source serves it, newest entry first
    seen_marker, \* the persisted SeenMarker: an entry id, 0 while none is stored
    first_marker, \* the marker the poller started out with
    ppc,        \* "idle" or "forwarding"
    pbatch,     \* the entries this cycle parsed from the feed
    pnew,       \* this cycle's new entries (the result of detect_new)
    pidx,       \* the next entry of pnew to forward
    forwarded,  \* ids of the entries forwarded successfully so far
    detected,    \* per cycle that advanced the marker: the ids detect_new returned
    \* ---- detail fetch and enforcement extraction (law matcher worker) ----
    etext,      \* what the fetched text signals
    efetched,   \* whether the detail fetch delivered a text
    eanalysed,  \* how often extract_enforcement was called
    erequest,   \* the linking request built, or NoLinkingRequest
    \* ---- the handlers' request id and shared-secret check ----
    hfn,        \* the edge function
    hheaders,   \* the request's x-request-id and secret headers
    henv,       \* the configured secret, and whether the configuration is complete
    hbody,      \* "invalid_json", "invalid_payload" or "valid"
    hpc,        \* the handler's position
    hid,        \* the handler's requestId
    huuids,     \* how many uuids were generated
    hlog,       \* the request ids of the log lines written
    heffects,   \* the storage reads and writes and outbound fetches made, in order
    hresponse,   \* the response: status, X-Request-ID, the body's request_id
    \* ---- Logger (shared/logger.ts) ----
    lcontext,   \* the context object handed to the Logger: key and value
    lerror,     \* the error handed to Logger.error, or NoLogError
    llevel,     \* "info", "warn" or "error"
    lline,       \* the fields of the line written, or NoValue
    \* ---- POST /api/proposals/[id]/summary (apps/web) ----
    rtid,       \* the id of the route
    rtenv,      \* whether getSummaryServerEnv finds its variables
    rtpc,       \* "start", "fetching" or "responded"
    rtcalls,    \* how often the upstream summary function was called
    rtupstream, \* the upstream's answer: status and parsed body, or NoUpstream
    rtresponse,  \* the route's response: status and body, or NoValue
    \* ---- parseListQuery (apps/web/lib/query.ts) ----
    qparams,    \* the URL's status, page, from and to parameters
    qresult,     \* the ListQuery returned, or NoValue
    \* ---- pagination helpers (apps/web/lib/pagination.ts) ----
    gin,        \* currentPage, totalPages, maxVisible, totalCount, pageSize
    gout,        \* what getOffset, getTotalPages and getVisiblePages return, or NoValue
    \* ---- ProposalDetailView (apps/web) ----
    vmounted,   \* whether the component is mounted
    vid,        \* the proposalId prop
    vloads,     \* the loads started so far: the proposal id each one fetches
    vpending,   \* the loads (positions in vloads) whose fetch has not settled
    vpayload,   \* the payload state: proposal id, the load that set it, its summary
    vloading,   \* isLoading
    vnotfound,  \* isNotFound
    verror,     \* whether errorMessage is set
    vtriggerSent, \* triggerSentRef.current
    vtriggers,  \* the trigger POSTs sent: id, the payload that let it pass, ignore, pending
    vdropped,   \* the loads whose fetch settled after the load was superseded
    \* ---- generate-proposal-summary: claim and generation ----
    gdecision,  \* per invocation: the decision of claim_proposal_summary_generation
    gpc,        \* per invocation: position in the handler
    geffects,   \* per invocation: source fetches, document reads, model calls, row writes
    gcause,     \* per invocation: the code of the caught generation error
    gresponse,  \* per invocation: the response
    grow,       \* the proposal_summaries row of the proposal and status
    glate,      \* updates whose withTimeout timer won and that the database has yet to run
    gnow        \* Date.now() when the invocations run

fetchVars == <<fLink, fpc, ftimer, issued, jinaBody, directBody, jinaErr, fresult, ferror>>

wtVars == <<wtImpl, wtPc, wtPromise, wtTimers, wtCalls, wtOutcome>>

ingestVars == <<ireq, ipc, ii, succeeded, failures, ilog, iresponse>>
storeVars == <<law_proposals>>
matcherVars == <<proposal_targets, mreq, mpc, mdocs, mlink, mresponse>>

normalizeVars == <<nvalue, nresult>>

dateVars == <<dvalue, dresult>>

classifyVars == <<cerror, cstatus, cresult>>

pollVars ==
    <<feed, seen_marker, first_marker, ppc, pbatch, pnew, pidx, forwarded, detected>>

extractVars == <<etext, efetched, eanalysed, erequest>>

viewVars ==
    <<vmounted, vid, vloads, vpending, vpayload, vloading, vnotfound, verror, vtriggerSent,
      vtriggers, vdropped>>

genVars == <<gdecision, gpc, geffects, gcause, gresponse, grow, glate, gnow>>

pageVars == <<gin, gout>>

queryVars == <<qparams, qresult>>

routeVars == <<rtid, rtenv, rtpc, rtcalls, rtupstream, rtresponse>>

logVars == <<lcontext, lerror, llevel, lline>>

handlerVars ==
    <<hfn, hheaders, henv, hbody, hpc, hid, huuids, hlog, heffects, hresponse>>

vars ==
    <<fetchVars, wtVars, storeVars, ingestVars, matcherVars, normalizeVars, dateVars,
      classifyVars, pollVars,
      extractVars,
      handlerVars,
      logVars,
      routeVars,
      queryVars,
      pageVars,
      viewVars,
      genVars>>

\* what an action of one subsystem leaves alone
notFetch == <<wtVars, storeVars, ingestVars, matcherVars, normalizeVars, dateVars, classifyVars,
    pollVars,
      extractVars,
      handlerVars,
      logVars,
      routeVars,
      queryVars,
      pageVars,
      viewVars,
      genVars>>
notWt == <<fetchVars, storeVars, ingestVars, matcherVars, normalizeVars, dateVars, classifyVars,
    pollVars,
      extractVars,
      handlerVars,
      logVars,
      routeVars,
      queryVars,
      pageVars,
      viewVars,
      genVars>>
notIngest == <<fetchVars, wtVars, matcherVars, normalizeVars, dateVars, classifyVars,
    pollVars,
      extractVars,
      handlerVars,
      logVars,
      routeVars,
      queryVars,
      pageVars,
      viewVars,
      genVars>>
notMatcher == <<fetchVars, wtVars, ingestVars, normalizeVars, dateVars, classifyVars,
    pollVars,
      extractVars,
      handlerVars,
      logVars,
      routeVars,
      queryVars,
      pageVars,
      viewVars,
      genVars>>
notNormalize == <<fetchVars, wtVars, storeVars, ingestVars, matcherVars, dateVars, classifyVars,
    pollVars,
      extractVars,
      handlerVars,
      logVars,
      routeVars,
      queryVars,
      pageVars,
      viewVars,
      genVars>>
notDate ==
    <<fetchVars, wtVars, storeVars, ingestVars, matcherVars, normalizeVars, classifyVars,
      pollVars,
      extractVars,
      handlerVars,
      logVars,
      routeVars,
      queryVars,
      pageVars,
      viewVars,
      genVars>>
notClassify ==
    <<fetchVars, wtVars, storeVars, ingestVars, matcherVars, normalizeVars, dateVars,
      pollVars,
      extractVars,
      handlerVars,
      logVars,
      routeVars,
      queryVars,
      pageVars,
      viewVars,
      genVars>>
notGen ==
    <<fetchVars, wtVars, storeVars, ingestVars, matcherVars, normalizeVars, dateVars,
      classifyVars, pollVars, extractVars, handlerVars, logVars, routeVars, queryVars,
      pageVars, viewVars>>
notView ==
    <<fetchVars, wtVars, storeVars, ingestVars, matcherVars, normalizeVars, dateVars,
      classifyVars, pollVars, extractVars, handlerVars, logVars, routeVars, queryVars,
      pageVars,
      genVars>>
notPage ==
    <<fetchVars, wtVars, storeVars, ingestVars, matcherVars, normalizeVars, dateVars,
      classifyVars, pollVars, extractVars, handlerVars, logVars, routeVars, queryVars,
      viewVars,
      genVars>>
notQuery ==
    <<fetchVars, wtVars, storeVars, ingestVars, matcherVars, normalizeVars, dateVars,
      classifyVars, pollVars, extractVars, handlerVars, logVars, routeVars,
      pageVars,
      viewVars,
      genVars>>
notRoute ==
    <<fetchVars, wtVars, storeVars, ingestVars, matcherVars, normalizeVars, dateVars,
      classifyVars, pollVars, extractVars, handlerVars, logVars,
      queryVars,
      pageVars,
      viewVars,
      genVars>>
notLog ==
    <<fetchVars, wtVars, storeVars, ingestVars, matcherVars, normalizeVars, dateVars,
      classifyVars, pollVars, extractVars, handlerVars,
      routeVars,
      queryVars,
      pageVars,
      viewVars,
      genVars>>
notHandler ==
    <<fetchVars, wtVars, storeVars, ingestVars, matcherVars, normalizeVars, dateVars,
      classifyVars, pollVars, extractVars,
      logVars,
      routeVars,
      queryVars,
      pageVars,
      viewVars,
      genVars>>
notExtract ==
    <<fetchVars, wtVars, storeVars, ingestVars, matcherVars, normalizeVars, dateVars,
      classifyVars, pollVars,
      handlerVars,
      logVars,
      routeVars,
      queryVars,
      pageVars,
      viewVars,
      genVars>>
notPoll ==
    <<fetchVars, wtVars, storeVars, ingestVars, matcherVars, normalizeVars, dateVars,
      classifyVars,
      extractVars,
      handlerVars,
      logVars,
      routeVars,
      queryVars,
      pageVars,
      viewVars,
      genVars>>

NoValue == [none |-> TRUE]

(***************************************************************************)
(* Bounds of the model.                                                    *)
(***************************************************************************)
\* the largest run of surrounding whitespace / markup in a delivered body
MaxPad == 2

\* withTimeout calls made one after the other by one invocation
MaxCalls == 3

\* items in one ingestion batch
MaxBatch == 2

\* entries in the extracted_ids of one matcher request
MaxIds == 2
\* the feed holds at most MaxFeed entries
MaxFeed == 3
MaxDates == 2
MaxPages == 6
MaxVisible == 4
MaxCount == 6
MaxPageSize == 3
MaxLoads == 3
MaxViews == 2
MaxInvocations == 2
MaxNow == 1

(***************************************************************************)
(* Program constants.                                                      *)
(***************************************************************************)
MIN_SOURCE_TEXT_LENGTH == 250

(***************************************************************************)
(* Texts.  A body is [pad, core]: `core` characters of content surrounded  *)
(* by `pad` characters that trimming (for a proxy reply) or tag stripping  *)
(* (for html) removes.  An html page also says whether it holds the        *)
(* INNHOLD comment markers.                                                *)
(***************************************************************************)
CoreLengths == {0, MIN_SOURCE_TEXT_LENGTH - 1, MIN_SOURCE_TEXT_LENGTH,
                MIN_SOURCE_TEXT_LENGTH + 1}
Pads == {0, MaxPad}

ProxyBodies == [pad : Pads, core : CoreLengths]
HtmlPages == [markers : BOOLEAN, pad : Pads, core : CoreLengths]

\* String.length of a delivered body
RawLength(b) == b.pad + b.core

\* String.prototype.trim: the surrounding whitespace goes, the content stays
Trim(b) == [pad |-> 0, core |-> b.core]

\* stripHtmlTags: tags become blanks, entities are decoded, whitespace is
\* collapsed and trimmed: only the content characters remain
stripHtmlTags(section) == [pad |-> 0, core |-> section.core]

\* extractBetweenComments(html, "<!-- INNHOLD -->", "<!-- /INNHOLD -->"):
\* null without the markers or with nothing between them, else the trimmed slice
extractBetweenComments(html) ==
    IF ~html.markers \/ RawLength(html) = 0
    THEN NoValue
    ELSE [pad |-> html.pad, core |-> html.core]

\* extractInnholdSection: null when there is no section or no text in it
extractInnholdSection(html) ==
    LET section == extractBetweenComments(html) IN
    IF section = NoValue THEN NoValue
    ELSE LET text == stripHtmlTags(section) IN
         IF RawLength(text) > 0 THEN text ELSE NoValue

HttpStatuses == {200, 404, 429, 500}
ResponseOk(status) == status \in 200..299

SourceUrls == {[url |-> "u1"], [url |-> "u2"]}

\* a classified error: its code, and the http status the code embeds (0: none)
Err(code) == [code |-> code, status |-> 0]
HttpErr(prefix, status) == [code |-> prefix, status |-> status]
NoError == Err("none")

(***************************************************************************)
(* fetchViaJina / fetchViaDirectScrape / fetchProposalSource.              *)
(***************************************************************************)
\* fetchViaJina's length check on the trimmed reply
JinaTextAccepted(text) == ~(RawLength(text) < MIN_SOURCE_TEXT_LENGTH)

\* a bug the threshold rules out: the extraction is only checked for presence
DirectTextAcceptedAnyLength(extracted) == ~(extracted = NoValue)

\* fetchViaDirectScrape's check on the extraction
DirectTextAccepted(extracted) ==
    ~(extracted = NoValue \/ RawLength(extracted) < MIN_SOURCE_TEXT_LENGTH)

FetchInit ==
    /\ fLink \in SourceUrls \cup {NoValue}
    /\ fpc = "start"
    /\ ftimer = FALSE
    /\ issued = <<>>
    /\ jinaBody = NoValue
    /\ directBody = NoValue
    /\ jinaErr = NoError
    /\ fresult = NoValue
    /\ ferror = NoError

FetchIdle ==
    /\ fLink = NoValue
    /\ fpc = "idle"
    /\ ftimer = FALSE
    /\ issued = <<>>
    /\ jinaBody = NoValue
    /\ directBody = NoValue
    /\ jinaErr = NoError
    /\ fresult = NoValue
    /\ ferror = NoError

\* a bug the ordering rules out: the proxy's text is kept but control falls
\* through to the direct fetch
JinaSucceededFallsThrough(text) ==
    /\ fresult' = [text |-> text, method |-> "jina", sourceUrl |-> fLink]
    /\ issued' = Append(issued, "direct")
    /\ ftimer' = TRUE
    /\ fpc' = "direct_wait"
    /\ UNCHANGED <<jinaErr, ferror>>

\* fetchViaJina returns its SourceResult and fetchProposalSource returns it
JinaSucceeded(text) ==
    /\ fresult' = [text |-> text, method |-> "jina", sourceUrl |-> fLink]
    /\ fpc' = "returned"
    /\ UNCHANGED <<ftimer, issued, jinaErr, ferror>>

\* fetchProposalSource's catch of attempt 1: log the classified error, then
\* call fetchViaDirectScrape, which issues the direct fetch under withTimeout
JinaFailed(code) ==
    /\ jinaErr' = code
    /\ issued' = Append(issued, "direct")
    /\ ftimer' = TRUE
    /\ fpc' = "direct_wait"
    /\ UNCHANGED <<fresult, ferror>>

\* an error thrown by fetchViaDirectScrape leaves fetchProposalSource
DirectFailed(code) ==
    /\ ferror' = code
    /\ fpc' = "threw"
    /\ ftimer' = FALSE
    /\ UNCHANGED <<issued, jinaErr, fresult>>

\* fetchProposalSource up to its first await
FetchStart ==
    /\ fpc = "start"
    /\ IF fLink = NoValue
       THEN /\ ferror' = Err("missing_source_url")
            /\ fpc' = "threw"
            /\ UNCHANGED <<ftimer, issued>>
       ELSE /\ issued' = Append(issued, "jina")
            /\ ftimer' = TRUE
            /\ fpc' = "jina_wait"
            /\ UNCHANGED ferror
    /\ UNCHANGED <<fLink, jinaBody, directBody, jinaErr, fresult>>
    /\ UNCHANGED notFetch

\* the proxy answers with headers: withTimeout returns and clears its timer
JinaResponds ==
    /\ fpc = "jina_wait"
    /\ \E status \in HttpStatuses :
        IF ~ResponseOk(status)
        THEN JinaFailed(HttpErr("jina_http", status))
        ELSE /\ fpc' = "jina_body"
             /\ ftimer' = FALSE
             /\ UNCHANGED <<issued, jinaErr, fresult, ferror>>
    /\ UNCHANGED <<fLink, jinaBody, directBody>>
    /\ UNCHANGED notFetch

\* the fetch promise rejects (connection refused, DNS, ...)
JinaFetchRejects ==
    /\ fpc = "jina_wait"
    /\ JinaFailed(Err("generation_error"))
    /\ UNCHANGED <<fLink, jinaBody, directBody>>
    /\ UNCHANGED notFetch

\* the timer of withTimeout fires first
JinaTimeout ==
    /\ fpc = "jina_wait"
    /\ ftimer
    /\ JinaFailed(Err("timeout"))
    /\ UNCHANGED <<fLink, jinaBody, directBody>>
    /\ UNCHANGED notFetch

\* response.text() resolves: trim, check the length, return or fall back
JinaBodyArrives ==
    /\ fpc = "jina_body"
    /\ \E body \in ProxyBodies :
        /\ jinaBody' = body
        /\ LET text == Trim(body) IN
           IF JinaTextAccepted(text)
           THEN JinaSucceeded(text)
           ELSE JinaFailed(Err("jina_source_too_short"))
    /\ UNCHANGED <<fLink, directBody>>
    /\ UNCHANGED notFetch

\* response.text() rejects (the connection breaks while the body is read)
JinaBodyRejects ==
    /\ fpc = "jina_body"
    /\ JinaFailed(Err("generation_error"))
    /\ UNCHANGED <<fLink, jinaBody, directBody>>
    /\ UNCHANGED notFetch

\* the source site answers with headers
DirectResponds ==
    /\ fpc = "direct_wait"
    /\ \E status \in HttpStatuses :
        IF ~ResponseOk(status)
        THEN DirectFailed(HttpErr("stortinget_http", status))
        ELSE /\ fpc' = "direct_body"
             /\ ftimer' = FALSE
             /\ UNCHANGED <<issued, jinaErr, fresult, ferror>>
    /\ UNCHANGED <<fLink, jinaBody, directBody>>
    /\ UNCHANGED notFetch

DirectFetchRejects ==
    /\ fpc = "direct_wait"
    /\ DirectFailed(Err("generation_error"))
    /\ UNCHANGED <<fLink, jinaBody, directBody>>
    /\ UNCHANGED notFetch

DirectTimeout ==
    /\ fpc = "direct_wait"
    /\ ftimer
    /\ DirectFailed(Err("timeout"))
    /\ UNCHANGED <<fLink, jinaBody, directBody>>
    /\ UNCHANGED notFetch

\* response.text() resolves: extract the INNHOLD section, check, return or throw
DirectBodyArrives ==
    /\ fpc = "direct_body"
    /\ \E html \in HtmlPages :
        /\ directBody' = html
        /\ LET extracted == extractInnholdSection(html) IN
           IF DirectTextAccepted(extracted)
           THEN /\ fresult' = [text |-> extracted, method |-> "direct_scrape",
                               sourceUrl |-> fLink]
                /\ fpc' = "returned"
                /\ UNCHANGED <<ftimer, issued, jinaErr, ferror>>
           ELSE DirectFailed(Err("source_extract_failed"))
    /\ UNCHANGED <<fLink, jinaBody>>
    /\ UNCHANGED notFetch

DirectBodyRejects ==
    /\ fpc = "direct_body"
    /\ DirectFailed(Err("generation_error"))
    /\ UNCHANGED <<fLink, jinaBody, directBody>>
    /\ UNCHANGED notFetch

FetchNext ==
    \/ FetchStart
    \/ JinaResponds
    \/ JinaFetchRejects
    \/ JinaTimeout
    \/ JinaBodyArrives
    \/ JinaBodyRejects
    \/ DirectResponds
    \/ DirectFetchRejects
    \/ DirectTimeout
    \/ DirectBodyArrives
    \/ DirectBodyRejects


(***************************************************************************)
(* withTimeout.  Two implementations exist: the shared helper keeps the    *)
(* timer's id and clears it in a finally block; ingest-stortinget's own    *)
(* helper races the promise against a timer it never clears.               *)
(***************************************************************************)
WtImpls == {"shared", "local"}
WtValues == {"v1", "v2"}
WtErrors == {"e1", "e2"}

WtIdle ==
    /\ wtImpl = "shared"
    /\ wtPc = "idle"
    /\ wtPromise = "pending"
    /\ wtTimers = {}
    /\ wtCalls = 0
    /\ wtOutcome = NoValue

WtInit == WtIdle

\* what is left of the timers when a call returns: the shared helper's finally
\* block clears the call's timer, the local helper has no such block
TimersAfterReturn(impl, timers, id) ==
    IF impl = "shared" THEN timers \ {id} ELSE timers

\* withTimeout(promise, timeoutMs) up to its await: the timer is set, the race starts
WtCall ==
    /\ wtPc \in {"idle", "returned"}
    /\ wtCalls < MaxCalls
    /\ \E impl \in WtImpls :
        /\ wtImpl' = impl
        /\ wtCalls' = wtCalls + 1
        /\ wtTimers' = wtTimers \cup {wtCalls + 1}
        /\ wtPromise' = "pending"
        /\ wtPc' = "racing"
        /\ wtOutcome' = NoValue
    /\ UNCHANGED notWt

\* the operation resolves first: the race resolves with its value
WtPromiseResolves ==
    /\ wtPc = "racing"
    /\ wtPromise = "pending"
    /\ \E v \in WtValues :
        /\ wtPromise' = "resolved"
        /\ wtOutcome' = [kind |-> "value", v |-> v]
        /\ wtTimers' = TimersAfterReturn(wtImpl, wtTimers, wtCalls)
        /\ wtPc' = "returned"
    /\ UNCHANGED <<wtImpl, wtCalls>>
    /\ UNCHANGED notWt

\* the operation rejects first: the race rejects with its error
WtPromiseRejects ==
    /\ wtPc = "racing"
    /\ wtPromise = "pending"
    /\ \E e \in WtErrors :
        /\ wtPromise' = "rejected"
        /\ wtOutcome' = [kind |-> "error", v |-> e]
        /\ wtTimers' = TimersAfterReturn(wtImpl, wtTimers, wtCalls)
        /\ wtPc' = "returned"
    /\ UNCHANGED <<wtImpl, wtCalls>>
    /\ UNCHANGED notWt

\* a set timer fires.  The current call's timer rejects the race with
\* Error("timeout"); a timer left over from an earlier call rejects a race
\* that is already settled, which changes nothing
WtTimerFires ==
    /\ \E id \in wtTimers :
        IF id = wtCalls /\ wtPc = "racing"
        THEN /\ wtOutcome' = [kind |-> "error", v |-> "timeout"]
             /\ wtTimers' = TimersAfterReturn(wtImpl, wtTimers \ {id}, id)
             /\ wtPc' = "returned"
        ELSE /\ wtTimers' = wtTimers \ {id}
             /\ UNCHANGED <<wtOutcome, wtPc>>
    /\ UNCHANGED <<wtImpl, wtPromise, wtCalls>>
    /\ UNCHANGED notWt

\* the operation settles after the timeout: nobody is listening any more
WtPromiseSettlesLate ==
    /\ wtPc = "returned"
    /\ wtPromise = "pending"
    /\ \E st \in {"resolved", "rejected"} : wtPromise' = st
    /\ UNCHANGED <<wtImpl, wtPc, wtTimers, wtCalls, wtOutcome>>
    /\ UNCHANGED notWt

WtNext ==
    \/ WtCall
    \/ WtPromiseResolves
    \/ WtPromiseRejects
    \/ WtTimerFires
    \/ WtPromiseSettlesLate

(***************************************************************************)
(* Storage: public.law_proposals (stortinget_id text unique).              *)
(***************************************************************************)
StortingetIds == {"s1", "s2"}

\* what the feed worker sends for a proposal; a later poll may carry another title
IngestionItems == {[stortinget_id |-> "s1", title |-> "t1"],
                   [stortinget_id |-> "s1", title |-> "t2"],
                   [stortinget_id |-> "s2", title |-> "t1"]}

\* the row an insert of `item` creates; is_new_law is written later, by the matcher
NewRow(item) ==
    [stortinget_id |-> item.stortinget_id, title |-> item.title,
     is_new_law |-> FALSE, enforcement_date |-> "null"]

HasKey(rows, sid) == \E k \in DOMAIN rows : rows[k].stortinget_id = sid

\* upsert without ignoreDuplicates (merge-duplicates): a conflicting row takes
\* the columns of the payload
UpsertMergingDuplicates(rows, item) ==
    IF HasKey(rows, item.stortinget_id)
    THEN [k \in DOMAIN rows |->
            IF rows[k].stortinget_id = item.stortinget_id
            THEN [rows[k] EXCEPT !.title = item.title]
            ELSE rows[k]]
    ELSE Append(rows, NewRow(item))

\* upsert(item, { onConflict: "stortinget_id", ignoreDuplicates: true }):
\* INSERT ... ON CONFLICT (stortinget_id) DO NOTHING
UpsertIgnoringDuplicates(rows, item) ==
    IF HasKey(rows, item.stortinget_id)
    THEN rows
    ELSE Append(rows, NewRow(item))

StoreInit == law_proposals = <<>>

(***************************************************************************)
(* ingest-stortinget.                                                      *)
(***************************************************************************)
Batches == UNION {[1..n -> IngestionItems] : n \in 0..MaxBatch}

IngestBodies ==
    {[kind |-> "invalid_json", items |-> <<>>], [kind |-> "not_array", items |-> <<>>]}
    \cup {[kind |-> "items", items |-> b] : b \in Batches}

\* a request: whether x-ingest-secret equals STORTINGET_WORKER_SECRET, whether
\* SUPABASE_URL and SUPABASE_SERVICE_ROLE_KEY are set, and the body
IngestRequests ==
    {[secretOk |-> FALSE, configOk |-> TRUE, body |-> [kind |-> "items", items |-> <<>>]],
     [secretOk |-> TRUE, configOk |-> FALSE, body |-> [kind |-> "items", items |-> <<>>]]}
    \cup {[secretOk |-> TRUE, configOk |-> TRUE, body |-> b] : b \in IngestBodies}

NoRequest == [secretOk |-> FALSE, configOk |-> FALSE,
              body |-> [kind |-> "none", items |-> <<>>]]

\* How an awaited withTimeout(upsert) ends.  The storage client resolves with
\* { error } on a storage error (match-and-link-laws reads that field); the
\* promise rejects on a failure of the transport; the timer may win the race,
\* and then the statement may or may not have been executed.
UpsertOutcomes ==
    {[kind |-> "ok", applied |-> TRUE, message |-> "", code |-> "none"],
     [kind |-> "resolved_error", applied |-> FALSE, message |-> "", code |-> "23502"],
     [kind |-> "rejected", applied |-> FALSE, message |-> "fetch failed", code |-> "none"],
     [kind |-> "timeout", applied |-> FALSE, message |-> "timeout", code |-> "none"],
     [kind |-> "timeout", applied |-> TRUE, message |-> "timeout", code |-> "none"]}

\* whether the await throws into the catch block of the item loop
Thrown(outcome) == outcome.kind \in {"rejected", "timeout"}

\* error.message?.includes("permission")
MentionsPermission(message) == message \in {"permission denied", "permission denied for table"}

\* error.code?.startsWith("23")
IsIntegrityCode(code) == code \in {"23502", "23503", "23505", "23514"}

\* the catch block's classification of a thrown error
ClassifyIngestError(error) ==
    IF error.message = "timeout"
    THEN [code |-> "timeout", message_safe |-> "Request timeout",
          retryable |-> TRUE, counts |-> FALSE]
    ELSE IF error.code = "23505"
    THEN [code |-> "duplicate_key", message_safe |-> "Item already exists (idempotent)",
          retryable |-> FALSE, counts |-> TRUE]
    ELSE IF IsIntegrityCode(error.code)
    THEN [code |-> error.code, message_safe |-> "Data integrity error",
          retryable |-> FALSE, counts |-> FALSE]
    ELSE [code |-> IF error.code = "none" THEN "unknown_error" ELSE error.code,
          message_safe |-> "Failed to upsert item",
          retryable |-> ~MentionsPermission(error.message), counts |-> FALSE]

\* a bug the loop rules out: leaving the loop when an item fails
IngestLoopStopsOnFailure(thrown) == ~thrown

\* whether the for loop goes on to the next item after this one
IngestLoopContinues(thrown) == TRUE

\* the status line of the final response
IngestHttpStatus(nSucceeded, nFailed) ==
    IF nFailed = 0 THEN 200 ELSE IF nSucceeded > 0 THEN 207 ELSE 503

IngestResponse(http, status, processed, nSucceeded, fails) ==
    [http |-> http, status |-> status, processed |-> processed,
     succeeded |-> nSucceeded, failed |-> Len(fails), failures |-> fails]

\* a response without an IngestionResponse body (401, 400, 500)
IngestErrorResponse(http) == IngestResponse(http, "error", 0, 0, <<>>)

IngestInit ==
    /\ ireq = NoRequest
    /\ ipc = "idle"
    /\ ii = 0
    /\ succeeded = 0
    /\ failures = <<>>
    /\ ilog = <<>>
    /\ iresponse = NoValue

IngestIdle == IngestInit

\* the handler from its entry to its first await inside the loop, or to the
\* response it returns before the loop
IngestReceive ==
    /\ ipc \in {"idle", "responded"}
    /\ \E req \in IngestRequests :
        /\ ireq' = req
        /\ succeeded' = 0
        /\ failures' = <<>>
        /\ ilog' = <<>>
        /\ IF ~req.secretOk
           THEN ipc' = "responded" /\ ii' = 0 /\ iresponse' = IngestErrorResponse(401)
           ELSE IF ~req.configOk
           THEN ipc' = "responded" /\ ii' = 0 /\ iresponse' = IngestErrorResponse(500)
           ELSE IF req.body.kind # "items"
           THEN ipc' = "responded" /\ ii' = 0 /\ iresponse' = IngestErrorResponse(400)
           ELSE IF Len(req.body.items) = 0
           THEN /\ ipc' = "responded" /\ ii' = 0
                /\ iresponse' = IngestResponse(200, "ok", 0, 0, <<>>)
           ELSE ipc' = "await_upsert" /\ ii' = 1 /\ iresponse' = NoValue
    /\ UNCHANGED law_proposals
    /\ UNCHANGED notIngest

\* withTimeout(upsert(item)) settles: the statement's effect on the table, the
\* accounting of the try/catch, and then either the next item's upsert is
\* issued or the response is built and returned
IngestUpsertSettles ==
    /\ ipc = "await_upsert"
    /\ \E outcome \in UpsertOutcomes :
        LET items == ireq.body.items
            item == items[ii]
            itemId == item.stortinget_id
            classified == ClassifyIngestError(outcome)
            counted == ~Thrown(outcome) \/ classified.counts
            nSucceeded == IF counted THEN succeeded + 1 ELSE succeeded
            fails == IF Thrown(outcome)
                     THEN Append(failures,
                                 [stortinget_id |-> itemId, code |-> classified.code,
                                  message_safe |-> classified.message_safe,
                                  retryable |-> classified.retryable])
                     ELSE failures
        IN
        /\ law_proposals' = IF outcome.applied
                            THEN UpsertIgnoringDuplicates(law_proposals, item)
                            ELSE law_proposals
        /\ succeeded' = nSucceeded
        /\ failures' = fails
        /\ ilog' = Append(ilog, [pos |-> ii, id |-> itemId,
                                 existed |-> HasKey(law_proposals, itemId),
                                 outcome |-> outcome.kind,
                                 counted |-> counted,
                                 reported |-> Thrown(outcome)])
        /\ IF ii < Len(items) /\ IngestLoopContinues(Thrown(outcome))
           THEN ii' = ii + 1 /\ UNCHANGED <<ipc, iresponse>>
           ELSE /\ ii' = 0
                /\ ipc' = "responded"
                /\ iresponse' = IngestResponse(
                       IngestHttpStatus(nSucceeded, Len(fails)),
                       IF Len(fails) = 0 THEN "ok" ELSE "partial",
                       Len(items), nSucceeded, fails)
    /\ UNCHANGED ireq
    /\ UNCHANGED notIngest

\* a downstream step writes to a stored proposal: the matcher's
\* update({ is_new_law: true }).eq("id", proposalId)
DownstreamMarksNewLaw ==
    /\ \E k \in DOMAIN law_proposals :
        /\ ~law_proposals[k].is_new_law
        /\ law_proposals' = [law_proposals EXCEPT ![k].is_new_law = TRUE]
    /\ UNCHANGED ingestVars
    /\ UNCHANGED notIngest

IngestNext ==
    \/ IngestReceive
    \/ IngestUpsertSettles
    \/ DownstreamMarksNewLaw

(***************************************************************************)
(* Storage: public.legal_documents (legacy_id is not unique) and           *)
(* public.proposal_targets (unique (proposal_id, document_id)).  A         *)
(* proposal's id is the position of its row in law_proposals.              *)
(***************************************************************************)
LegalDocuments == {[id |-> "d1", legacy_id |-> "LOV-1"],
                   [id |-> "d2", legacy_id |-> "LOV-2"],
                   [id |-> "d3", legacy_id |-> "LOV-2"]}
DocumentIds == {d.id : d \in LegalDocuments}
ProposalIds == {1, 2}
LinkPairs == ProposalIds \X DocumentIds

\* select("id").in("legacy_id", ids)
DocumentsWithLegacyId(ids) == {d.id : d \in {x \in LegalDocuments : x.legacy_id \in ids}}

\* a plain insert of the link rows: a pair that is already stored gets a second row
InsertLinks(targets, pid, docs) ==
    [pair \in LinkPairs |->
        IF pair[1] = pid /\ pair[2] \in docs THEN targets[pair] + 1 ELSE targets[pair]]

\* upsert(linkEntries, { onConflict: "proposal_id,document_id" }): a pair
\* that is already stored keeps its one row
UpsertLinks(targets, pid, docs) ==
    [pair \in LinkPairs |->
        IF pair[1] = pid /\ pair[2] \in docs /\ targets[pair] = 0 THEN 1 ELSE targets[pair]]

LinkedPairs(targets) == {pair \in LinkPairs : targets[pair] > 0}

(***************************************************************************)
(* match-and-link-laws.                                                    *)
(***************************************************************************)
\* payload.proposal_id: a string (id 0: nothing but the padding) or not a string
ProposalIdPayloads ==
    {[isString |-> TRUE, pad |-> 0, id |-> 1],
     [isString |-> TRUE, pad |-> 1, id |-> 2],
     [isString |-> TRUE, pad |-> 1, id |-> 0],
     [isString |-> FALSE, pad |-> 0, id |-> 1]}

\* an entry of extracted_ids: a string (core "": nothing but the padding) or not
IdEntries ==
    <<[isString |-> TRUE, pad |-> 0, core |-> "LOV-1"],
      [isString |-> TRUE, pad |-> 1, core |-> "LOV-2"],
      [isString |-> TRUE, pad |-> 0, core |-> "LOV-X"],
      [isString |-> TRUE, pad |-> 1, core |-> ""],
      [isString |-> FALSE, pad |-> 0, core |-> "42"]>>

\* the entries at the positions in S, in the order of IdEntries
EntriesAt(S) ==
    LET ix == SelectSeq(<<1, 2, 3, 4, 5>>, LAMBDA k : k \in S)
    IN [j \in DOMAIN ix |-> IdEntries[ix[j]]]

\* lists of at most MaxIds entries, none repeated
EntryLists == {EntriesAt(S) : S \in {T \in SUBSET DOMAIN IdEntries : Cardinality(T) <= MaxIds}}
StringEntryLists ==
    {l \in EntryLists : Len(l) > 0 /\ \A k \in DOMAIN l : l[k].isString}

\* payload.extracted_ids: an array, a comma separated string (given by its
\* pieces between the commas), or anything else
ExtractedIdsPayloads ==
    {[kind |-> "array", entries |-> l] : l \in EntryLists}
    \cup {[kind |-> "csv", entries |-> l] : l \in StringEntryLists}
    \cup {[kind |-> "other", entries |-> <<>>]}

\* the enforcement classification the matcher worker sends along
EnforcementPayloads == {"2027-01-01", "PARSER_FEIL"}

NoIds == [kind |-> "other", entries |-> <<>>]

\* a body with a usable proposal_id takes every extracted_ids; one without
\* is refused whatever else it holds
MatcherBodies ==
    {[kind |-> "json", proposal_id |-> p, extracted_ids |-> x, enforcement_date |-> e] :
        p \in {q \in ProposalIdPayloads : q.isString /\ q.id # 0},
        x \in ExtractedIdsPayloads, e \in EnforcementPayloads}
    \cup {[kind |-> "json", proposal_id |-> p, extracted_ids |-> EntriesAtArray,
           enforcement_date |-> "PARSER_FEIL"] :
        p \in {q \in ProposalIdPayloads : ~q.isString \/ q.id = 0},
        EntriesAtArray \in {[kind |-> "array", entries |-> EntriesAt({1})]}}

InvalidJsonBody ==
    [kind |-> "invalid_json",
     proposal_id |-> [isString |-> FALSE, pad |-> 0, id |-> 0],
     extracted_ids |-> NoIds,
     enforcement_date |-> "null"]

MatcherRequests ==
    {[secretOk |-> FALSE, configOk |-> TRUE, body |-> InvalidJsonBody],
     [secretOk |-> TRUE, configOk |-> FALSE, body |-> InvalidJsonBody],
     [secretOk |-> TRUE, configOk |-> TRUE, body |-> InvalidJsonBody]}
    \cup {[secretOk |-> TRUE, configOk |-> TRUE, body |-> b] : b \in MatcherBodies}

\* what the handler holds of a request: proposalId, cleanIds, and the
\* enforcement_date the body came with
NoMatcherRequest == [proposal_id |-> 0, extracted_ids |-> <<>>, enforcement_date |-> "null"]

\* normalizeExtractedIds: an array keeps its strings, a string is split at the
\* commas and each piece trimmed, anything else is null (ok = FALSE)
normalizeExtractedIds(value) ==
    IF value.kind = "array"
    THEN [ok |-> TRUE, ids |-> SelectSeq(value.entries, LAMBDA e : e.isString)]
    ELSE IF value.kind = "csv"
    THEN [ok |-> TRUE,
          ids |-> [k \in DOMAIN value.entries |-> [value.entries[k] EXCEPT !.pad = 0]]]
    ELSE [ok |-> FALSE, ids |-> <<>>]

\* extractedIds.map(trim).filter(length > 0), as the strings that are left
CleanIdsKeepingBlank(ids) == [k \in DOMAIN ids |-> ids[k].core]

CleanIds(ids) ==
    LET kept == SelectSeq(ids, LAMBDA e : e.core # "")
    IN [k \in DOMAIN kept |-> kept[k].core]

\* typeof payload.proposal_id === "string" ? payload.proposal_id.trim() : ""
\* (0 stands for the empty string)
ProposalIdOf(payload) == IF payload.isString THEN payload.id ELSE 0

\* the request as the handler holds it once the body is parsed
ParsedRequest(req) ==
    IF req.secretOk /\ req.configOk /\ req.body.kind = "json"
    THEN [proposal_id |-> ProposalIdOf(req.body.proposal_id),
          extracted_ids |-> CleanIds(normalizeExtractedIds(req.body.extracted_ids).ids),
          enforcement_date |-> req.body.enforcement_date]
    ELSE NoMatcherRequest

SeqRange(seq) == {seq[k] : k \in DOMAIN seq}

\* how an awaited storage call ends; see UpsertOutcomes
StorageErrorCodes == {"23503", "42501", "XX000"}

WriteOutcomes ==
    {[kind |-> "ok", applied |-> TRUE, message |-> "", code |-> "none"],
     [kind |-> "rejected", applied |-> FALSE, message |-> "fetch failed", code |-> "none"],
     [kind |-> "timeout", applied |-> FALSE, message |-> "timeout", code |-> "none"],
     [kind |-> "timeout", applied |-> TRUE, message |-> "timeout", code |-> "none"]}
    \cup {[kind |-> "resolved_error", applied |-> FALSE, message |-> "storage error", code |-> c] :
            c \in StorageErrorCodes}

ReadOutcomes == {o \in WriteOutcomes : o.kind = "ok" \/ ~o.applied}

\* isTimeoutError: toError(error).message === "timeout"
isTimeoutError(error) == error.message = "timeout"

\* classifyMatchError
classifyMatchError(error) ==
    IF isTimeoutError(error)
    THEN [code |-> "timeout", retryable |-> TRUE, classification |-> "timeout"]
    ELSE IF IsIntegrityCode(error.code)
    THEN [code |-> error.code, retryable |-> FALSE,
          classification |-> "data_integrity_error"]
    ELSE IF error.code = "42501"
    THEN [code |-> error.code, retryable |-> FALSE,
          classification |-> "infrastructure_error"]
    ELSE [code |-> IF error.code = "none" THEN "internal_failure" ELSE error.code,
          retryable |-> TRUE, classification |-> "infrastructure_error"]

\* the members of the JSON body: errorResponse sends error, request_id and,
\* when one was passed, code; jsonResponse sends the object the handler built
ResponseBodyKeys(status, code) ==
    IF status = "error"
    THEN {"error", "request_id"} \cup (IF code = "none" THEN {} ELSE {"code"})
    ELSE {"status", "proposal_id", "request_id"}
         \cup (IF status = "ids_not_found_in_db" THEN {"searched", "found"} ELSE {})
         \cup (IF status = "linked" THEN {"linked_count"} ELSE {})

MatcherResponse(http, status, code, count) ==
    [http |-> http, status |-> status, code |-> code, count |-> count,
     keys |-> ResponseBodyKeys(status, code)]

\* errorResponse(500, "Internal error", requestId, classified.code)
MatcherFailure(error) ==
    MatcherResponse(500, "error", classifyMatchError(error).code, 0)

NoLink == [applied |-> FALSE, conflicts |-> FALSE]

\* the columns the handler's update sets on the proposal row
MarkedAsNewLaw(row) == [row EXCEPT !.is_new_law = TRUE]

\* update(...).eq("id", proposalId): no row, no change
UpdateProposal(rows, pid) ==
    [k \in DOMAIN rows |-> IF k = pid THEN MarkedAsNewLaw(rows[k]) ELSE rows[k]]

TargetsInit == proposal_targets = [pair \in LinkPairs |-> 0]

MatcherIdle ==
    /\ mreq = NoMatcherRequest
    /\ mpc = "idle"
    /\ mdocs = {}
    /\ mlink = NoLink
    /\ mresponse = NoValue

\* the proposals the matcher is called for were ingested before
MatcherStoreInit ==
    law_proposals = <<NewRow([stortinget_id |-> "s1", title |-> "t1"]),
                      NewRow([stortinget_id |-> "s2", title |-> "t1"])>>

MatcherInit == MatcherIdle /\ TargetsInit

MatcherAnswers(resp) ==
    /\ mpc' = "responded"
    /\ mresponse' = resp

\* the handler from its entry to its first storage call, or to the response
\* it returns before any
MatcherReceive ==
    /\ mpc \in {"idle", "responded"}
    /\ \E req \in MatcherRequests :
        /\ mreq' = ParsedRequest(req)
        /\ mdocs' = {}
        /\ mlink' = NoLink
        /\ IF ~req.secretOk
           THEN MatcherAnswers(MatcherResponse(401, "error", "invalid_secret", 0))
           ELSE IF ~req.configOk
           THEN MatcherAnswers(MatcherResponse(500, "error", "config_missing", 0))
           ELSE IF req.body.kind = "invalid_json"
           THEN MatcherAnswers(MatcherResponse(400, "error", "invalid_json", 0))
           ELSE IF ProposalIdOf(req.body.proposal_id) = 0
                   \/ ~normalizeExtractedIds(req.body.extracted_ids).ok
           THEN MatcherAnswers(MatcherResponse(400, "error", "invalid_payload", 0))
           ELSE IF Len(CleanIds(normalizeExtractedIds(req.body.extracted_ids).ids)) = 0
           THEN mpc' = "await_mark" /\ mresponse' = NoValue
           ELSE mpc' = "await_docs" /\ mresponse' = NoValue
    /\ UNCHANGED <<law_proposals, proposal_targets>>
    /\ UNCHANGED notMatcher

\* withTimeout(update({ is_new_law: true })) settles
MatcherMarkSettles ==
    /\ mpc = "await_mark"
    /\ \E outcome \in WriteOutcomes :
        /\ law_proposals' = IF outcome.applied
                            THEN UpdateProposal(law_proposals, mreq.proposal_id)
                            ELSE law_proposals
        /\ IF outcome.kind = "ok"
           THEN MatcherAnswers(MatcherResponse(200, "marked_as_new", "none", 0))
           ELSE MatcherAnswers(MatcherFailure(outcome))
    /\ UNCHANGED <<proposal_targets, mreq, mdocs, mlink>>
    /\ UNCHANGED notMatcher

\* withTimeout(select("id").in("legacy_id", cleanIds)) settles: no match is
\* answered at once, otherwise the upsert of the link rows is issued
MatcherDocsSettle ==
    /\ mpc = "await_docs"
    /\ \E outcome \in ReadOutcomes :
        LET cleanIds == mreq.extracted_ids
            documents == DocumentsWithLegacyId(SeqRange(cleanIds))
        IN
        IF outcome.kind # "ok"
        THEN MatcherAnswers(MatcherFailure(outcome)) /\ UNCHANGED mdocs
        ELSE IF documents = {}
        THEN /\ MatcherAnswers(MatcherResponse(200, "ids_not_found_in_db", "none",
                                               Len(cleanIds)))
             /\ UNCHANGED mdocs
        ELSE mdocs' = documents /\ mpc' = "await_link" /\ UNCHANGED mresponse
    /\ UNCHANGED <<law_proposals, proposal_targets, mreq, mlink>>
    /\ UNCHANGED notMatcher

\* withTimeout(upsert(linkEntries)) settles
MatcherLinkSettles ==
    /\ mpc = "await_link"
    /\ \E outcome \in WriteOutcomes :
        LET pid == mreq.proposal_id IN
        /\ proposal_targets' = IF outcome.applied
                               THEN UpsertLinks(proposal_targets, pid, mdocs)
                               ELSE proposal_targets
        /\ mlink' = [applied |-> outcome.applied,
                     conflicts |-> outcome.applied
                                   /\ \A d \in mdocs : proposal_targets[<<pid, d>>] > 0]
        /\ IF outcome.kind = "ok"
           THEN MatcherAnswers(MatcherResponse(200, "linked", "none", Cardinality(mdocs)))
           ELSE MatcherAnswers(MatcherFailure(outcome))
    /\ UNCHANGED <<law_proposals, mreq, mdocs>>
    /\ UNCHANGED notMatcher

MatcherNext ==
    \/ MatcherReceive
    \/ MatcherMarkSettles
    \/ MatcherDocsSettle
    \/ MatcherLinkSettles

(***************************************************************************)
(* payload.ts: normalizeEnforcementDate.  A string is the sequence of its  *)
(* characters; a value is its type and, for a string, its characters.      *)
(***************************************************************************)
ENFORCEMENT_TOKENS ==
    {
      <<"K", "O", "N", "G", "E", "N", "_", "B", "E", "S", "T", "E", "M", "M", "E", "R">>,
      <<"S", "T", "R", "A", "K", "S">>,
      <<"F", "L", "E", "R", "E", "_", "D", "A", "T", "O", "E", "R">>,
      <<"P", "A", "R", "S", "E", "R", "_", "I", "K", "K", "E", "_", "F", "U", "N", "N", "E", "T">>,
      <<"P", "A", "R", "S", "E", "R", "_", "F", "E", "I", "L">>
    }

ENFORCEMENT_SET == ENFORCEMENT_TOKENS

Digits == <<"0", "1", "2", "3", "4", "5", "6", "7", "8", "9">>
IsDigit(c) == \E k \in DOMAIN Digits : Digits[k] = c
DigitValue(c) == (CHOOSE k \in DOMAIN Digits : Digits[k] = c) - 1
NumberAt(s, from, to) ==
    LET RECURSIVE Acc(_, _)
        Acc(k, n) == IF k > to THEN n ELSE Acc(k + 1, 10 * n + DigitValue(s[k]))
    IN Acc(from, 0)

\* the n lowest decimal digits of v, zero padded (padStart(n, "0"))
DigitsOf(v, n) ==
    LET RECURSIVE Pow10(_)
        Pow10(k) == IF k = 0 THEN 1 ELSE 10 * Pow10(k - 1)
    IN [k \in 1..n |-> Digits[((v \div Pow10(n - k)) % 10) + 1]]

IsWhitespace(c) == c \in {" ", "\t", "\n"}

\* String.prototype.trim
TrimString(s) ==
    LET solid == {k \in DOMAIN s : ~IsWhitespace(s[k])}
    IN IF solid = {} THEN <<>>
       ELSE SubSeq(s, CHOOSE k \in solid : \A j \in solid : k <= j,
                      CHOOSE k \in solid : \A j \in solid : k >= j)

\* /^\d{4}-\d{2}-\d{2}$/.test(value)
ISO_DATE_PATTERN(value) ==
    /\ Len(value) = 10
    /\ \A k \in {1, 2, 3, 4, 6, 7, 9, 10} : IsDigit(value[k])
    /\ value[5] = "-" /\ value[8] = "-"

\* ECMAScript day arithmetic (days since 1970-01-01, \div rounds down)
DayFromYear(y) ==
    365 * (y - 1970) + ((y - 1969) \div 4) - ((y - 1901) \div 100) + ((y - 1601) \div 400)
DaysInYear(y) == DayFromYear(y + 1) - DayFromYear(y)
InLeapYear(y) == IF DaysInYear(y) = 366 THEN 1 ELSE 0

\* the day within the year on which month m (0..11; 12: the next year) starts
MonthStart(m, leap) ==
    <<0, 31, 59, 90, 120, 151, 181, 212, 243, 273, 304, 334, 365>>[m + 1]
        + (IF m >= 2 THEN leap ELSE 0)

MakeDay(year, month, date) ==
    DayFromYear(year) + MonthStart(month, InLeapYear(year)) + date - 1

Min2(a, b) == IF a <= b THEN a ELSE b
Max2(a, b) == IF a >= b THEN a ELSE b

YearFromDay(day) ==
    CHOOSE y \in (1970 + Min2(day \div 365, day \div 366) - 1)
                 ..(1970 + Max2(day \div 365, day \div 366) + 1) :
        DayFromYear(y) <= day /\ day < DayFromYear(y + 1)
DayWithinYear(day) == day - DayFromYear(YearFromDay(day))
MonthFromDay(day) ==
    CHOOSE m \in 0..11 :
        /\ MonthStart(m, InLeapYear(YearFromDay(day))) <= DayWithinYear(day)
        /\ DayWithinYear(day) < MonthStart(m + 1, InLeapYear(YearFromDay(day)))
DateFromDay(day) ==
    DayWithinYear(day) - MonthStart(MonthFromDay(day), InLeapYear(YearFromDay(day))) + 1

\* new Date(`${value}T00:00:00Z`) for a value that matches the pattern, as
\* V8 parses it: a month outside 01..12 or a day outside 01..31 is an
\* Invalid Date, any other day counts on from the first of the month
ParseIsoDate(value) ==
    LET year == NumberAt(value, 1, 4)
        month == NumberAt(value, 6, 7)
        date == NumberAt(value, 9, 10)
    IN IF month \notin 1..12 \/ date \notin 1..31
       THEN [nan |-> TRUE, day |-> 0]
       ELSE [nan |-> FALSE, day |-> MakeDay(year, month - 1, date)]

\* parsed.toISOString().slice(0, 10)
IsoDatePrefix(day) ==
    DigitsOf(YearFromDay(day), 4) \o <<"-">> \o DigitsOf(MonthFromDay(day) + 1, 2)
        \o <<"-">> \o DigitsOf(DateFromDay(day), 2)

\* isValidIsoDate without the comparison with toISOString()
isValidIsoDateWithoutRoundTrip(value) ==
    ISO_DATE_PATTERN(value) /\ ~ParseIsoDate(value).nan

isValidIsoDate(value) ==
    IF ~ISO_DATE_PATTERN(value) THEN FALSE
    ELSE IF ParseIsoDate(value).nan THEN FALSE
    ELSE IsoDatePrefix(ParseIsoDate(value).day) = value

NullResult == [isNull |-> TRUE, chars |-> <<>>]
StringResult(s) == [isNull |-> FALSE, chars |-> s]

normalizeEnforcementDate(value) ==
    IF value.type # "string" THEN NullResult
    ELSE LET normalized == TrimString(value.chars) IN
         IF Len(normalized) = 0 THEN NullResult
         ELSE IF normalized \in ENFORCEMENT_SET THEN StringResult(normalized)
         ELSE IF isValidIsoDate(normalized) THEN StringResult(normalized)
         ELSE NullResult

\* the values normalizeEnforcementDate is applied to
DateYears == {0, 1900, 2000, 2024, 2027, 2100, 9999}
DateMonths == 0..13
DateDays == {0, 1, 28, 29, 30, 31, 32}
DateShapedStrings ==
    {DigitsOf(y, 4) \o <<"-">> \o DigitsOf(m, 2) \o <<"-">> \o DigitsOf(d, 2) :
        y \in DateYears, m \in DateMonths, d \in DateDays}
OtherStrings ==
    {<<>>,
     <<"U", "N", "K", "N", "O", "W", "N">>,
     <<"s", "t", "r", "a", "k", "s">>,
     <<"S", "T", "R", "A", "K", "S", "_">>,
     <<"2", "0", "2", "7", "-", "1", "-", "0", "1">>,
     <<"2", "0", "2", "7", "/", "0", "1", "/", "0", "1">>,
     <<"2", "0", "2", "7", "0", "1", "0", "1">>,
     <<"2", "0", "2", "7", "-", "0", "1", "-", "0", "1", "1">>,
     <<"2", "0", "2", "7", "-", "0", "1", "-", "0", "1", "T", "0", "0", ":", "0", "0", ":", "0", "0", "Z">>,
     <<"x", "0", "2", "7", "-", "0", "1", "-", "0", "1">>,
     <<"2", "0", "2", "7", "-", "0", "1", " ", "-", "0", "1">>,
     <<"2", "7", "-", "0", "1", "-", "2", "0", "2", "7">>,
     <<"-", "0", "2", "7", "-", "0", "1", "-", "0", "1">>}
Whitespace(n) == [k \in 1..n |-> IF k % 2 = 1 THEN " " ELSE "\n"]
NormalizeValues ==
    {[type |-> t, chars |-> <<>>] : t \in {"null", "number", "object"}}
    \cup {[type |-> "string", chars |-> Whitespace(l) \o core \o Whitespace(r)] :
            l \in Pads, r \in Pads,
            core \in ENFORCEMENT_TOKENS \cup DateShapedStrings \cup OtherStrings}

NormalizeIdle ==
    /\ nvalue = [type |-> "null", chars |-> <<>>]
    /\ nresult = NoValue

NormalizeInit ==
    /\ nvalue \in NormalizeValues
    /\ nresult = NoValue

NormalizeApply ==
    /\ nresult = NoValue
    /\ nresult' = normalizeEnforcementDate(nvalue)
    /\ UNCHANGED nvalue
    /\ UNCHANGED notNormalize

NormalizeNext ==
    \/ NormalizeApply

(***************************************************************************)
(* apps/web/lib/query.ts: isIsoDate, next to payload.ts's isValidIsoDate.  *)
(***************************************************************************)
\* isIsoDate without the comparison with toISOString()
isIsoDateWithoutRoundTrip(value) ==
    Len(value) # 0 /\ ISO_DATE_PATTERN(value) /\ ~ParseIsoDate(value).nan

isIsoDate(value) ==
    IF Len(value) = 0 THEN FALSE
    ELSE IF ~ISO_DATE_PATTERN(value) THEN FALSE
    ELSE /\ ~ParseIsoDate(value).nan
         /\ IsoDatePrefix(ParseIsoDate(value).day) = value

\* the strings the two validators are applied to (neither trims)
DateValues ==
    DateShapedStrings \cup OtherStrings \cup ENFORCEMENT_TOKENS
    \cup {Whitespace(l) \o core \o Whitespace(r) :
            l \in Pads, r \in Pads,
            core \in {DigitsOf(y, 4) \o <<"-", "0", "2", "-", "2", "9">> : y \in DateYears}}

DateIdle == dvalue = <<>> /\ dresult = NoValue

DateInit == dvalue \in DateValues /\ dresult = NoValue

DateValidate ==
    /\ dresult = NoValue
    /\ dresult' = [edge |-> isValidIsoDate(dvalue), web |-> isIsoDate(dvalue)]
    /\ UNCHANGED dvalue
    /\ UNCHANGED notDate

DateNext ==
    \/ DateValidate

(***************************************************************************)
(* The error classifiers: classifyMatchError, the catch block of the       *)
(* ingest loop, and generate-proposal-summary's classifySupabaseError,     *)
(* classifyOpenAiHttpStatus and classifyGenerationError.                   *)
(***************************************************************************)
NoMeta == [present |-> FALSE, code |-> "none", retryable |-> FALSE]

\* a thrown value: its message, its code (getErrorCode; "none": undefined)
\* and, on an error made by makeClassifiedError, its meta
RawErrors ==
    [message : {"timeout", "fetch failed", "permission denied for table",
                "new row violates row-level security policy"},
     code : {"none", "23505", "23503", "42501", "57014", "PGRST301"},
     meta : {NoMeta}]

\* makeClassifiedError(meta): message is meta.messageSafe or the text passed
ClassifiedErrors ==
    {[message |-> "classified", code |-> "none",
      meta |-> [present |-> TRUE, code |-> c, retryable |-> r]] :
        c \in {"jina_http_500", "missing_source_url"}, r \in BOOLEAN}

ErrorObjects == RawErrors \cup ClassifiedErrors

OpenAiStatuses == {400, 401, 403, 404, 429, 500, 502, 503}

classifySupabaseError(error) ==
    IF isTimeoutError(error)
    THEN [code |-> "timeout", messageSafe |-> "Supabase request timed out",
          retryable |-> TRUE, classification |-> "timeout"]
    ELSE IF IsIntegrityCode(error.code)
    THEN [code |-> error.code, messageSafe |-> "Data integrity error",
          retryable |-> FALSE, classification |-> "data_integrity_error"]
    ELSE IF error.code = "42501"
    THEN [code |-> error.code, messageSafe |-> "Authorization error",
          retryable |-> FALSE, classification |-> "infrastructure_error"]
    ELSE [code |-> IF error.code = "none" THEN "supabase_error" ELSE error.code,
          messageSafe |-> "Failed Supabase operation",
          retryable |-> TRUE, classification |-> "infrastructure_error"]

classifyOpenAiHttpStatus(status) ==
    IF status = 401 \/ status = 403
    THEN [code |-> Err("openai_auth_error"), retryable |-> FALSE,
          classification |-> "model_error"]
    ELSE IF status = 429
    THEN [code |-> Err("openai_rate_limited"), retryable |-> TRUE,
          classification |-> "model_error"]
    ELSE IF status >= 500
    THEN [code |-> Err("openai_server_error"), retryable |-> TRUE,
          classification |-> "model_error"]
    ELSE [code |-> HttpErr("openai_http", status), retryable |-> TRUE,
          classification |-> "model_error"]

classifyGenerationError(error) ==
    IF error.meta.present
    THEN [code |-> error.meta.code, retryable |-> error.meta.retryable,
          classification |-> "classified"]
    ELSE IF isTimeoutError(error)
    THEN [code |-> "timeout", retryable |-> TRUE, classification |-> "timeout"]
    ELSE [code |-> IF error.code = "none" THEN "generation_error" ELSE error.code,
          retryable |-> TRUE, classification |-> "infrastructure_error"]

ClassifyIdle ==
    /\ cerror = [message |-> "timeout", code |-> "none", meta |-> NoMeta]
    /\ cstatus = 500
    /\ cresult = NoValue

ClassifyInit ==
    /\ cerror \in ErrorObjects
    /\ cstatus \in OpenAiStatuses
    /\ cresult = NoValue

ClassifyApply ==
    /\ cresult = NoValue
    /\ cresult' = [match |-> classifyMatchError(cerror),
                   ingest |-> ClassifyIngestError(cerror),
                   supabase |-> classifySupabaseError(cerror),
                   generation |-> classifyGenerationError(cerror),
                   openai |-> classifyOpenAiHttpStatus(cstatus)]
    /\ UNCHANGED <<cerror, cstatus>>
    /\ UNCHANGED notClassify

ClassifyNext ==
    \/ ClassifyApply

(***************************************************************************)
(* Feed poller and new-item detector (workers/stortinget-rss-worker).      *)
(* An entry is its identifier (a larger one is a later publication) and    *)
(* whether it came with a link.  The marker 0 is the absent marker; entry  *)
(* 1 was published before the run and has left the feed window.            *)
(***************************************************************************)
FeedEntries == [id : 2..(MaxFeed + 1), hasLink : BOOLEAN]

EntryIds(entries) == {entries[k].id : k \in DOMAIN entries}

\* detect_new that also returns the entries at and after the marker
detect_new_ignoring_marker(entries, last_seen) ==
    SelectSeq(entries, LAMBDA entry : entry.hasLink)

\* detect_new(entries, last_seen): walk the batch from the newest entry,
\* stop at the entry the marker names, leave out entries without a link
detect_new(entries, last_seen) ==
    LET RECURSIVE Walk(_, _)
        Walk(k, acc) ==
            IF k > Len(entries) THEN acc
            ELSE IF last_seen # 0 /\ entries[k].hasLink /\ entries[k].id = last_seen
            THEN acc
            ELSE Walk(k + 1, IF entries[k].hasLink THEN Append(acc, entries[k]) ELSE acc)
    IN Walk(1, <<>>)

\* the marker a finished cycle stores: the last element of its result
MarkerFromLastForwarded(entries, marker) ==
    IF Len(entries) = 0 THEN marker ELSE entries[Len(entries)].id

\* the marker a finished cycle stores: the most recent entry it processed
MarkerAfter(entries, marker) ==
    IF Len(entries) = 0 THEN marker ELSE entries[1].id

\* a marker written while entries are still waiting to be forwarded
MarkerWrittenEarly(index, entries) == TRUE

\* the marker is written as the last step: nothing is left to forward
MarkerMayBeWritten(index, entries) == index > Len(entries)

PollIdle ==
    /\ feed = <<>>
    /\ seen_marker = 0
    /\ first_marker = 0
    /\ ppc = "idle"
    /\ pbatch = <<>>
    /\ pnew = <<>>
    /\ pidx = 1
    /\ forwarded = {}
    /\ detected = <<>>

\* a feed of at most one entry; the stored marker is absent, names an
\* entry the feed no longer holds, or names the entry in the feed
PollInit ==
    /\ feed \in {<<>>} \cup {<<e>> : e \in {x \in FeedEntries : x.id = 2}}
    /\ seen_marker \in {0, 1} \cup {e.id : e \in {x \in FeedEntries : feed = <<x>> /\ x.hasLink}}
    /\ first_marker = seen_marker
    /\ ppc = "idle"
    /\ pbatch = <<>>
    /\ pnew = <<>>
    /\ pidx = 1
    /\ forwarded = {}
    /\ detected = <<>>

\* the source publishes an entry: it goes in front of the older ones
FeedPublishes ==
    /\ Len(feed) < MaxFeed
    /\ \E hasLink \in BOOLEAN :
        feed' = <<[id |-> Len(feed) + 2, hasLink |-> hasLink]>> \o feed
    /\ UNCHANGED <<seen_marker, first_marker, ppc, pbatch, pnew, pidx, forwarded, detected>>
    /\ UNCHANGED notPoll

\* a cycle starts: read the marker, fetch and parse the feed, detect
PollStart ==
    /\ ppc = "idle"
    /\ Len(detected) <= MaxFeed
    /\ pbatch' = feed
    /\ pnew' = detect_new(feed, seen_marker)
    /\ pidx' = 1
    /\ ppc' = "forwarding"
    /\ UNCHANGED <<feed, seen_marker, first_marker, forwarded, detected>>
    /\ UNCHANGED notPoll

\* the next new entry is forwarded to the ingestion path
ForwardSucceeds ==
    /\ ppc = "forwarding"
    /\ pidx <= Len(pnew)
    /\ forwarded' = forwarded \cup {pnew[pidx].id}
    /\ pidx' = pidx + 1
    /\ UNCHANGED <<feed, seen_marker, first_marker, ppc, pbatch, pnew, detected>>
    /\ UNCHANGED notPoll

\* forwarding fails, or the invocation stops part-way: the cycle is over
\* and the marker is left as it was
PollFails ==
    /\ ppc = "forwarding"
    /\ ppc' = "idle"
    /\ pbatch' = <<>>
    /\ pnew' = <<>>
    /\ pidx' = 1
    /\ UNCHANGED <<feed, seen_marker, first_marker, forwarded, detected>>
    /\ UNCHANGED notPoll

\* the last step of a cycle: the marker is stored
PollWritesMarker ==
    /\ ppc = "forwarding"
    /\ MarkerMayBeWritten(pidx, pnew)
    /\ seen_marker' = MarkerAfter(pnew, seen_marker)
    /\ detected' = IF Len(pnew) = 0 THEN detected ELSE Append(detected, EntryIds(pnew))
    /\ ppc' = "idle"
    /\ pbatch' = <<>>
    /\ pnew' = <<>>
    /\ pidx' = 1
    /\ UNCHANGED <<feed, first_marker, forwarded>>
    /\ UNCHANGED notPoll

PollNext ==
    \/ FeedPublishes
    \/ PollStart
    \/ ForwardSucceeds
    \/ PollFails
    \/ PollWritesMarker

(***************************************************************************)
(* Detail fetch and enforcement extraction of the law matcher worker       *)
(* (workers/stortinget-law-matcher).  A fetched text is what its wording   *)
(* signals: deferred-authority phrasing, immediate-on-sanction phrasing,   *)
(* and the dates bound to commencement wording, in order of appearance.    *)
(* A date is written as day, Norwegian month name and year.                *)
(***************************************************************************)
KONGEN_BESTEMMER ==
    <<"K", "O", "N", "G", "E", "N", "_", "B", "E", "S", "T", "E", "M", "M", "E", "R">>
STRAKS == <<"S", "T", "R", "A", "K", "S">>
FLERE_DATOER == <<"F", "L", "E", "R", "E", "_", "D", "A", "T", "O", "E", "R">>
PARSER_IKKE_FUNNET ==
    <<"P", "A", "R", "S", "E", "R", "_", "I", "K", "K", "E", "_", "F", "U", "N", "N", "E", "T">>
PARSER_FEIL == <<"P", "A", "R", "S", "E", "R", "_", "F", "E", "I", "L">>

MonthNames ==
    <<"januar", "februar", "mars", "april", "mai", "juni", "juli", "august",
      "september", "oktober", "november", "desember">>

\* the number of a Norwegian month name, 0 for any other word
MonthNumber(name) ==
    IF \E k \in DOMAIN MonthNames : MonthNames[k] = name
    THEN CHOOSE k \in DOMAIN MonthNames : MonthNames[k] = name
    ELSE 0

\* the written date as YYYY-MM-DD if it names a real calendar day, else <<>>
ParseCommencementDate(mention) ==
    LET month == MonthNumber(mention.month)
        first == MakeDay(mention.year, month - 1, 1)
        next == IF month = 12 THEN MakeDay(mention.year + 1, 0, 1)
                ELSE MakeDay(mention.year, month, 1)
    IN IF month = 0 \/ mention.day < 1 \/ mention.day > next - first THEN <<>>
       ELSE DigitsOf(mention.year, 4) \o <<"-">> \o DigitsOf(month, 2) \o <<"-">>
                \o DigitsOf(mention.day, 2)

\* the distinct real dates among the text's commencement dates
CommencementDates(text) ==
    {ParseCommencementDate(text.dates[k]) : k \in DOMAIN text.dates} \ {<<>>}

\* extract_enforcement with the date rules ahead of the phrasing rules
extract_enforcement_dates_first(text) ==
    LET dates == CommencementDates(text) IN
    IF Cardinality(dates) > 1 THEN FLERE_DATOER
    ELSE IF Cardinality(dates) = 1 THEN CHOOSE d \in dates : TRUE
    ELSE IF text.deferred THEN KONGEN_BESTEMMER
    ELSE IF text.immediate THEN STRAKS
    ELSE PARSER_IKKE_FUNNET

extract_enforcement(text) ==
    LET dates == CommencementDates(text) IN
    IF text.deferred THEN KONGEN_BESTEMMER
    ELSE IF text.immediate THEN STRAKS
    ELSE IF Cardinality(dates) > 1 THEN FLERE_DATOER
    ELSE IF Cardinality(dates) = 1 THEN CHOOSE d \in dates : TRUE
    ELSE PARSER_IKKE_FUNNET

\* the classifications a detail-fetch run puts into its linking request
ClassificationsOf(fetched, text) ==
    IF fetched THEN <<extract_enforcement(text)>> ELSE <<PARSER_FEIL>>

DateMentions ==
    {[day |-> 1, month |-> "januar", year |-> 2027],
     [day |-> 1, month |-> "juli", year |-> 2027],
     [day |-> 30, month |-> "februar", year |-> 2027],
     [day |-> 29, month |-> "februar", year |-> 2028],
     [day |-> 1, month |-> "janvier", year |-> 2027]}

Texts ==
    [deferred : BOOLEAN, immediate : BOOLEAN,
     dates : UNION {[1..n -> DateMentions] : n \in 0..MaxDates}]

NoText == [deferred |-> FALSE, immediate |-> FALSE, dates |-> <<>>]
NoLinkingRequest == [proposal_id |-> 0, enforcement_date |-> <<>>]

ExtractIdle ==
    etext = NoText /\ efetched = FALSE /\ eanalysed = 0 /\ erequest = NoLinkingRequest

\* a detail fetch has ended: with the proposal's text, or in failure
ExtractInit ==
    /\ etext \in Texts
    /\ efetched \in BOOLEAN
    /\ eanalysed = 0
    /\ erequest = NoLinkingRequest

\* the worker builds the proposal's linking request
BuildLinkingRequest ==
    /\ erequest = NoLinkingRequest
    /\ \E id \in ProposalIds :
         erequest' = [proposal_id |-> id,
                      enforcement_date |-> ClassificationsOf(efetched, etext)]
    /\ eanalysed' = IF efetched THEN eanalysed + 1 ELSE eanalysed
    /\ UNCHANGED <<etext, efetched>>
    /\ UNCHANGED notExtract

ExtractNext ==
    \/ BuildLinkingRequest

(***************************************************************************)
(* The Deno.serve handlers' request id, shared-secret check and order of   *)
(* steps: ingest-stortinget, match-and-link-laws and                       *)
(* generate-proposal-summary.  A header or an environment variable is      *)
(* absent or holds a string; a request id is the incoming string or the    *)
(* n-th value crypto.randomUUID() returned.                                *)
(***************************************************************************)
EdgeFunctions == {"ingest-stortinget", "match-and-link-laws", "generate-proposal-summary"}

Absent == [present |-> FALSE, chars |-> <<>>]
Present(s) == [present |-> TRUE, chars |-> s]

\* Headers.get: null for a missing header, else the value without its
\* leading and trailing HTTP whitespace
HeadersGet(header) ==
    IF header.present THEN Present(TrimString(header.chars)) ELSE Absent

Incoming(s) == [uuid |-> 0, chars |-> s]
RandomUUID(n) == [uuid |-> n, chars |-> <<>>]
NoRequestId == [uuid |-> 0, chars |-> <<>>]

\* getOrCreateRequestId: req.headers.get("x-request-id")?.trim(), or a new uuid
getOrCreateRequestId(headers, n) ==
    LET incoming == HeadersGet(headers.request_id) IN
    IF incoming.present /\ Len(TrimString(incoming.chars)) > 0
    THEN Incoming(TrimString(incoming.chars))
    ELSE RandomUUID(n)

\* new Logger(name, req.headers.get("x-request-id") || undefined).getRequestId()
LoggerRequestId(headers, n) ==
    LET incoming == HeadersGet(headers.request_id) IN
    IF incoming.present /\ Len(incoming.chars) > 0
    THEN Incoming(incoming.chars)
    ELSE RandomUUID(n)

\* the request id the handler works with
RequestIdOf(fn, headers, n) ==
    IF fn = "ingest-stortinget" THEN LoggerRequestId(headers, n)
    ELSE getOrCreateRequestId(headers, n)

\* the request id the handler's outer catch block answers with: ingest-stortinget
\* builds a new Logger there, without the request's id
CatchRequestId(fn, id, n) ==
    IF fn = "ingest-stortinget" THEN RandomUUID(n + 1) ELSE id

\* a handler that reads the configuration before it looks at the secret
SecretCheckedAfterConfig(fn) == "config"

\* the step a handler takes first, once it has its request id
FirstStep(fn) == "secret"

\* !incomingSecret || incomingSecret !== Deno.env.get(...)
Unauthorized(headers, env) ==
    LET incomingSecret == HeadersGet(headers.secret) IN
    \/ ~incomingSecret.present
    \/ Len(incomingSecret.chars) = 0
    \/ incomingSecret # env.secret

\* what the handler does once the request is authorized and well-formed
Effects(fn) ==
    IF fn = "ingest-stortinget" THEN <<"storage_write">>
    ELSE IF fn = "match-and-link-laws"
    THEN <<"storage_write", "storage_read", "storage_write">>
    ELSE <<"storage_read", "storage_write", "fetch", "fetch", "storage_write">>

Prefixes(seq) == {SubSeq(seq, 1, n) : n \in 0..Len(seq)}

HandlerResponse(status, id) ==
    [status |-> status, header_request_id |-> id, body_request_id |-> id]

RequestIdHeaders ==
    {Absent, Present(<<>>), Present(<<" ">>), Present(<<"r">>), Present(<<" ", "r", "\t">>)}
SecretHeaders == {Absent, Present(<<>>), Present(<<" ">>), Present(<<"a">>), Present(<<"b">>)}
SecretSettings == {Absent, Present(<<>>), Present(<<"a">>)}
HandlerBodies == {"invalid_json", "invalid_payload", "valid"}

NoHeaders == [request_id |-> Absent, secret |-> Absent]
NoEnv == [secret |-> Absent, config |-> FALSE]

HandlerIdle ==
    /\ hfn = "none" /\ hheaders = NoHeaders /\ henv = NoEnv /\ hbody = "none"
    /\ hpc = "idle" /\ hid = NoRequestId /\ huuids = 0 /\ hlog = {}
    /\ heffects = <<>> /\ hresponse = NoValue

HandlerInit ==
    /\ hfn \in EdgeFunctions
    /\ hheaders \in [request_id : RequestIdHeaders, secret : SecretHeaders]
    /\ henv \in [secret : SecretSettings, config : BOOLEAN]
    /\ hbody \in HandlerBodies
    /\ hpc = "start" /\ hid = NoRequestId /\ huuids = 0 /\ hlog = {}
    /\ heffects = <<>> /\ hresponse = NoValue

HandlerResponds(status, id) ==
    /\ hpc' = "responded"
    /\ hlog' = hlog \cup {id}
    /\ hresponse' = HandlerResponse(status, id)

\* the handler takes or generates its request id
HandlerStart ==
    /\ hpc = "start"
    /\ hid' = RequestIdOf(hfn, hheaders, huuids + 1)
    /\ huuids' = IF hid'.uuid = 0 THEN huuids ELSE huuids + 1
    /\ hpc' = FirstStep(hfn)
    /\ UNCHANGED <<hfn, hheaders, henv, hbody, hlog, heffects, hresponse>>
    /\ UNCHANGED notHandler

\* the shared-secret check: auth_failed is logged and answered 401
HandlerChecksSecret ==
    /\ hpc = "secret"
    /\ IF Unauthorized(hheaders, henv)
       THEN HandlerResponds(401, hid)
       ELSE /\ hpc' = (IF FirstStep(hfn) = "secret" THEN "config" ELSE "body")
            /\ UNCHANGED <<hlog, hresponse>>
    /\ UNCHANGED <<hfn, hheaders, henv, hbody, hid, huuids, heffects>>
    /\ UNCHANGED notHandler

\* SUPABASE_URL, SUPABASE_SERVICE_ROLE_KEY (and OPENAI_API_KEY) must be set
HandlerChecksConfig ==
    /\ hpc = "config"
    /\ IF ~henv.config
       THEN HandlerResponds(500, hid)
       ELSE /\ hpc' = (IF FirstStep(hfn) = "secret" THEN "body" ELSE "secret")
            /\ UNCHANGED <<hlog, hresponse>>
    /\ UNCHANGED <<hfn, hheaders, henv, hbody, hid, huuids, heffects>>
    /\ UNCHANGED notHandler

\* req.json() and the validation of the payload
HandlerParsesBody ==
    /\ hpc = "body"
    /\ IF hbody # "valid"
       THEN HandlerResponds(400, hid)
       ELSE /\ hpc' = "work"
            \* logger.info("ingest_started")
            /\ hlog' = IF hfn = "ingest-stortinget" THEN hlog \cup {hid} ELSE hlog
            /\ UNCHANGED hresponse
    /\ UNCHANGED <<hfn, hheaders, henv, hbody, hid, huuids, heffects>>
    /\ UNCHANGED notHandler

\* the work is done and answered: 200, or 500 for a classified failure
HandlerCompletes ==
    /\ hpc = "work"
    /\ heffects' = Effects(hfn)
    /\ \E status \in {200, 500} : HandlerResponds(status, hid)
    /\ UNCHANGED <<hfn, hheaders, henv, hbody, hid, huuids>>
    /\ UNCHANGED notHandler

\* an exception reaches the handler's outer catch block
HandlerCatches ==
    /\ hpc = "work"
    /\ \E done \in Prefixes(Effects(hfn)) : heffects' = done
    /\ HandlerResponds(500, CatchRequestId(hfn, hid, huuids))
    /\ huuids' = IF CatchRequestId(hfn, hid, huuids) = hid THEN huuids ELSE huuids + 1
    /\ UNCHANGED <<hfn, hheaders, henv, hbody, hid>>
    /\ UNCHANGED notHandler

HandlerNext ==
    \/ HandlerStart
    \/ HandlerChecksSecret
    \/ HandlerChecksConfig
    \/ HandlerParsesBody
    \/ HandlerCompletes
    \/ HandlerCatches

(***************************************************************************)
(* shared/logger.ts: sanitizeValue, sanitizeContext and Logger.  A key is  *)
(* the sequence of its characters; a value is its type with its number,    *)
(* its length (string, array) or its characters' origin.                   *)
(***************************************************************************)
STRING_MAX_LENGTH == 512

UpperCase == <<"A", "B", "C", "D", "E", "F", "G", "H", "I", "J", "K", "L", "M",
               "N", "O", "P", "Q", "R", "S", "T", "U", "V", "W", "X", "Y", "Z">>
LowerCaseLetters == <<"a", "b", "c", "d", "e", "f", "g", "h", "i", "j", "k", "l", "m",
               "n", "o", "p", "q", "r", "s", "t", "u", "v", "w", "x", "y", "z">>

\* the /i flag: letters compare by their lower-case form
ToLower(c) ==
    IF \E k \in DOMAIN UpperCase : UpperCase[k] = c
    THEN LowerCaseLetters[CHOOSE k \in DOMAIN UpperCase : UpperCase[k] = c]
    ELSE c

\* whether the word stands in the key at position pos
MatchesAt(key, pos, word) ==
    /\ pos + Len(word) - 1 <= Len(key)
    /\ \A k \in DOMAIN word : ToLower(key[pos + k - 1]) = word[k]

\* /(secret|token|password|authorization|cookie|api[-_]?key|private[-_]?key|dsn|payload|body|html|content|text)/i
SENSITIVE_KEY_WORDS ==
    {<<"s", "e", "c", "r", "e", "t">>,
     <<"t", "o", "k", "e", "n">>,
     <<"p", "a", "s", "s", "w", "o", "r", "d">>,
     <<"a", "u", "t", "h", "o", "r", "i", "z", "a", "t", "i", "o", "n">>,
     <<"c", "o", "o", "k", "i", "e">>,
     <<"a", "p", "i", "k", "e", "y">>,
     <<"a", "p", "i", "-", "k", "e", "y">>,
     <<"a", "p", "i", "_", "k", "e", "y">>,
     <<"p", "r", "i", "v", "a", "t", "e", "k", "e", "y">>,
     <<"p", "r", "i", "v", "a", "t", "e", "-", "k", "e", "y">>,
     <<"p", "r", "i", "v", "a", "t", "e", "_", "k", "e", "y">>,
     <<"d", "s", "n">>,
     <<"p", "a", "y", "l", "o", "a", "d">>,
     <<"b", "o", "d", "y">>,
     <<"h", "t", "m", "l">>,
     <<"c", "o", "n", "t", "e", "n", "t">>,
     <<"t", "e", "x", "t">>}

SENSITIVE_KEY_PATTERN(key) ==
    \E pos \in DOMAIN key : \E word \in SENSITIVE_KEY_WORDS : MatchesAt(key, pos, word)

\* /(?:_|-)(type|length|count)$/i
SAFE_SUFFIXES ==
    {sep \o word : sep \in {<<"_">>, <<"-">>},
                   word \in {<<"t", "y", "p", "e">>, <<"l", "e", "n", "g", "t", "h">>, <<"c", "o", "u", "n", "t">>}}

SAFE_SENSITIVE_SUFFIX_PATTERN(key) ==
    \E suffix \in SAFE_SUFFIXES :
        Len(key) >= Len(suffix) /\ MatchesAt(key, Len(key) - Len(suffix) + 1, suffix)

Redacted == [type |-> "string", number |-> 0, length |-> 10, text |-> "[redacted]"]
Undefined == [type |-> "undefined", number |-> 0, length |-> 0, text |-> ""]
NumberValue(n) == [type |-> "number", number |-> n, length |-> 0, text |-> ""]
StringValue(n, origin) == [type |-> "string", number |-> 0, length |-> n, text |-> origin]
ArrayValue(n) == [type |-> "array", number |-> 0, length |-> n, text |-> ""]
ObjectValue == [type |-> "object", number |-> 0, length |-> 0, text |-> ""]
NullValue == [type |-> "null", number |-> 0, length |-> 0, text |-> ""]

\* sanitizeString: at most STRING_MAX_LENGTH characters, then "...[truncated]"
sanitizeString(value) ==
    IF value.length <= STRING_MAX_LENGTH THEN value
    ELSE StringValue(STRING_MAX_LENGTH + 14, "truncated")

sanitizeValue(value) ==
    IF value.type \in {"null", "number", "boolean"} THEN value
    ELSE IF value.type = "string" THEN sanitizeString(value)
    ELSE IF value.type = "array" THEN StringValue(9, "[array:n]")
    ELSE IF value.type = "object" THEN StringValue(8, "[object]")
    ELSE StringValue(9, "String(v)")

\* sanitizeContext without the exception for metric suffixes
sanitizeContextWithoutSafeSuffix(context) ==
    LET kept == {key \in DOMAIN context : context[key] # Undefined}
    IN [key \in kept |->
          IF SENSITIVE_KEY_PATTERN(key) THEN Redacted ELSE sanitizeValue(context[key])]

\* a context is a function from its keys to their values
sanitizeContext(context) ==
    LET kept == {key \in DOMAIN context : context[key] # Undefined}
    IN [key \in kept |->
          IF SENSITIVE_KEY_PATTERN(key) /\ ~SAFE_SENSITIVE_SUFFIX_PATTERN(key)
          THEN Redacted
          ELSE sanitizeValue(context[key])]

ContextKeys ==
    {<<"a", "p", "i", "_", "k", "e", "y">>,
     <<"h", "t", "m", "l", "_", "b", "o", "d", "y">>,
     <<"c", "o", "u", "n", "t">>,
     <<"p", "a", "y", "l", "o", "a", "d", "_", "t", "y", "p", "e">>,
     <<"b", "o", "d", "y", "_", "l", "e", "n", "g", "t", "h">>,
     <<"c", "o", "n", "t", "e", "n", "t", "_", "c", "o", "u", "n", "t">>,
     <<"r", "e", "q", "u", "e", "s", "t", "_", "b", "o", "d", "y">>,
     <<"b", "o", "d", "y", "-", "l", "e", "n", "g", "t", "h">>,
     <<"A", "u", "t", "h", "o", "r", "i", "z", "a", "t", "i", "o", "n">>,
     <<"t", "i", "t", "l", "e">>,
     <<"c", "o", "n", "t", "e", "x", "t">>,
     <<"a", "p", "i", "K", "e", "y">>,
     <<"a", "p", "i", " ", "k", "e", "y">>,
     <<"t", "y", "p", "e", "_", "b", "o", "d", "y">>,
     <<"s", "e", "c", "r", "e", "t", "_", "c", "o", "u", "n", "t">>,
     <<"c", "o", "d", "e">>}

ContextValues ==
    {NumberValue(3), StringValue(5, "raw"), StringValue(STRING_MAX_LENGTH, "raw"),
     StringValue(STRING_MAX_LENGTH + 1, "raw"), ArrayValue(2), ObjectValue, NullValue,
     Undefined}

NoLogError == [given |-> FALSE, message |-> Undefined]
LogErrors == {NoLogError, [given |-> TRUE, message |-> StringValue(5, "raw")]}

error_message == <<"e", "r", "r", "o", "r", "_", "m", "e", "s", "s", "a", "g", "e">>

\* Logger.error: { ...context, error_message: normalized?.message }
MergedContext(context, error) ==
    [key \in DOMAIN context \cup {error_message} |->
        IF key = error_message THEN error.message ELSE context[key]]

\* Logger.write: the line's fields that come from the context
LineFields(level, context, error) ==
    sanitizeContext(IF level = "error" THEN MergedContext(context, error) ELSE context)

LogIdle ==
    lcontext = <<>> /\ lerror = NoLogError /\ llevel = "none" /\ lline = NoValue

LogInit ==
    /\ \E key \in ContextKeys : \E value \in ContextValues :
         lcontext = [k \in {key} |-> value]
    /\ llevel \in {"info", "warn", "error"}
    /\ lerror \in (IF llevel = "error" THEN LogErrors ELSE {NoLogError})
    /\ lline = NoValue

\* Logger.info / Logger.warn / Logger.error write their line
LoggerWrites ==
    /\ lline = NoValue
    /\ lline' = [fields |-> LineFields(llevel, lcontext, lerror)]
    /\ UNCHANGED <<lcontext, lerror, llevel>>
    /\ UNCHANGED notLog

LogNext ==
    \/ LoggerWrites

(***************************************************************************)
(* apps/web: POST /api/proposals/[id]/summary.  An id is what the pattern  *)
(* of isUuid looks at: its 8-4-4-4-12 hexadecimal shape, its version digit *)
(* and its variant digit.  A parsed body is null, an array or an object    *)
(* with its status member.                                                 *)
(***************************************************************************)
\* /^[0-9a-f]{8}-[0-9a-f]{4}-[1-5][0-9a-f]{3}-[89ab][0-9a-f]{3}-[0-9a-f]{12}$/i
isUuid(id) ==
    id.shaped /\ id.version \in {"1", "2", "3", "4", "5"} /\ id.variant \in {"8", "9", "a", "b"}

RouteIds ==
    {[shaped |-> TRUE, version |-> "4", variant |-> "a"],
     [shaped |-> TRUE, version |-> "1", variant |-> "9"],
     [shaped |-> TRUE, version |-> "7", variant |-> "8"],
     [shaped |-> TRUE, version |-> "0", variant |-> "0"],
     [shaped |-> FALSE, version |-> "4", variant |-> "a"]}

TRIGGER_STATUSES == {"started", "pending", "already_ready", "cooldown", "failed"}

\* a JSON value as the status member of a body
JsonString(s) == [type |-> "string", text |-> s]
JsonArrayOf(s) == [type |-> "array", text |-> s]
JsonNumber == [type |-> "number", text |-> "1"]
NoMember == [type |-> "undefined", text |-> ""]

\* String(value)
StringOf(value) ==
    IF value.type = "undefined" THEN "undefined" ELSE value.text

NullBody == [kind |-> "null", status |-> NoMember]
ArrayBody == [kind |-> "array", status |-> NoMember]
ObjectBody(status) == [kind |-> "object", status |-> status]

\* String(candidate.status) is looked up: an array of one string reads as that string
isTriggerResponse(value) ==
    /\ value.kind = "object"
    /\ StringOf(value.status) \in TRIGGER_STATUSES

\* upstream.json().catch(() => null)
UpstreamBodies ==
    {NullBody, ArrayBody, ObjectBody(NoMember), ObjectBody(JsonNumber),
     ObjectBody(JsonString("done")), ObjectBody(JsonArrayOf("started"))}
    \cup {ObjectBody(JsonString(s)) : s \in TRIGGER_STATUSES}

UpstreamStatuses == {200, 201, 400, 401, 404, 429, 500, 503}

\* Response.ok
UpstreamOk(status) == status \in 200..299

NoUpstream == [status |-> 0, body |-> NullBody]
ErrorBody == [kind |-> "error", status |-> NoMember]

RouteResponse(status, body) == [status |-> status, body |-> body]

\* the route's answer to what the upstream answered
RouteAnswerTo(upstream) ==
    IF ~UpstreamOk(upstream.status)
    THEN RouteResponse(IF upstream.status >= 500 THEN 502 ELSE upstream.status, ErrorBody)
    ELSE IF ~isTriggerResponse(upstream.body) THEN RouteResponse(502, ErrorBody)
    ELSE RouteResponse(200, upstream.body)

RouteIdle ==
    /\ rtid = [shaped |-> FALSE, version |-> "0", variant |-> "0"] /\ rtenv = FALSE
    /\ rtpc = "idle" /\ rtcalls = 0 /\ rtupstream = NoUpstream /\ rtresponse = NoValue

RouteInit ==
    /\ rtid \in RouteIds
    /\ rtenv \in BOOLEAN
    /\ rtpc = "start" /\ rtcalls = 0 /\ rtupstream = NoUpstream /\ rtresponse = NoValue

\* POST up to its fetch: the id is checked, the environment read (it throws
\* when a variable is missing), the upstream called
RoutePost ==
    /\ rtpc = "start"
    /\ IF ~isUuid(rtid)
       THEN rtpc' = "responded" /\ rtresponse' = RouteResponse(404, ErrorBody)
                /\ UNCHANGED rtcalls
       ELSE IF ~rtenv
       THEN rtpc' = "responded" /\ rtresponse' = RouteResponse(500, ErrorBody)
                /\ UNCHANGED rtcalls
       ELSE rtpc' = "fetching" /\ rtcalls' = rtcalls + 1 /\ UNCHANGED rtresponse
    /\ UNCHANGED <<rtid, rtenv, rtupstream>>
    /\ UNCHANGED notRoute

\* the upstream answers
RouteUpstreamResponds ==
    /\ rtpc = "fetching"
    /\ \E status \in UpstreamStatuses : \E body \in UpstreamBodies :
         /\ rtupstream' = [status |-> status, body |-> body]
         /\ rtresponse' = RouteAnswerTo(rtupstream')
    /\ rtpc' = "responded"
    /\ UNCHANGED <<rtid, rtenv, rtcalls>>
    /\ UNCHANGED notRoute

\* fetch rejects: the catch block answers
RouteFetchRejects ==
    /\ rtpc = "fetching"
    /\ rtpc' = "responded"
    /\ rtresponse' = RouteResponse(500, ErrorBody)
    /\ UNCHANGED <<rtid, rtenv, rtcalls, rtupstream>>
    /\ UNCHANGED notRoute

RouteNext ==
    \/ RoutePost
    \/ RouteUpstreamResponds
    \/ RouteFetchRejects

(***************************************************************************)
(* apps/web/lib/query.ts: parseStatus, parsePositiveInt, parseListQuery.   *)
(* URLSearchParams.get gives null (Absent) or the parameter's characters.  *)
(***************************************************************************)
PROPOSAL_STATUSES ==
    {<<"v", "e", "d", "t", "a", "t", "t">>, <<"s", "a", "n", "k", "s", "j", "o", "n", "e", "r", "t">>, <<"i", "_", "k", "r", "a", "f", "t">>}

StatusAll == <<"a", "l", "l">>

parseStatus(value) ==
    IF ~value.present \/ Len(value.chars) = 0 \/ value.chars = StatusAll THEN StatusAll
    ELSE IF value.chars \in PROPOSAL_STATUSES THEN value.chars
    ELSE StatusAll

\* Number.parseInt(value, 10): leading white space is skipped, a sign is
\* read, then the longest run of digits; NaN when there is no digit
ParseInt(s) ==
    LET solid == {k \in DOMAIN s : ~IsWhitespace(s[k])}
        start == IF solid = {} THEN Len(s) + 1 ELSE CHOOSE k \in solid : \A j \in solid : k <= j
        signed == start <= Len(s) /\ s[start] \in {"-", "+"}
        first == IF signed THEN start + 1 ELSE start
        stops == {k \in first..(Len(s) + 1) : k = Len(s) + 1 \/ ~IsDigit(s[k])}
        stop == CHOOSE k \in stops : \A j \in stops : k <= j
        magnitude == NumberAt(s, first, stop - 1)
    IN IF stop = first THEN [nan |-> TRUE, number |-> 0]
       ELSE [nan |-> FALSE,
             number |-> IF signed /\ s[start] = "-" THEN 0 - magnitude ELSE magnitude]

\* parsePositiveInt that takes any number parseInt reads
parsePositiveIntUnchecked(value, fallback) ==
    IF ~value.present \/ Len(value.chars) = 0 THEN fallback
    ELSE IF ParseInt(value.chars).nan THEN fallback
    ELSE ParseInt(value.chars).number

parsePositiveInt(value, fallback) ==
    IF ~value.present \/ Len(value.chars) = 0 THEN fallback
    ELSE IF ParseInt(value.chars).nan \/ ParseInt(value.chars).number < 1 THEN fallback
    ELSE ParseInt(value.chars).number

\* the UTF-16 code unit order of the characters of a date
CharOrder == <<"-", "0", "1", "2", "3", "4", "5", "6", "7", "8", "9">>
CharRank(c) == CHOOSE k \in DOMAIN CharOrder : CharOrder[k] = c

\* a > b for strings
StringGreater(a, b) ==
    \/ \E k \in DOMAIN a \cap DOMAIN b :
         /\ \A j \in 1..(k - 1) : a[j] = b[j]
         /\ CharRank(a[k]) > CharRank(b[k])
    \/ Len(a) > Len(b) /\ \A j \in DOMAIN b : a[j] = b[j]

\* isIsoDate(params.get(name)) ? params.get(name) : null
DateOrNull(value) ==
    IF value.present /\ isIsoDate(value.chars) THEN value ELSE Absent

parseListQuery(params) ==
    LET from == DateOrNull(params.from)
        to == DateOrNull(params.to)
        swap == from.present /\ to.present /\ StringGreater(from.chars, to.chars)
    IN [status |-> parseStatus(params.status),
        from |-> IF swap THEN to ELSE from,
        to |-> IF swap THEN from ELSE to,
        page |-> parsePositiveInt(params.page, 1)]

StatusParams ==
    {Absent, Present(<<>>), Present(StatusAll), Present(<<"u", "k", "j", "e", "n", "t">>),
     Present(<<"V", "E", "D", "T", "A", "T", "T">>)}
    \cup {Present(s) : s \in PROPOSAL_STATUSES}

PageParams ==
    {Absent, Present(<<>>), Present(<<"0">>), Present(<<"3">>), Present(<<"-", "2">>),
     Present(<<"a", "b", "c">>), Present(<<"3", "a">>), Present(<<" ", "7">>),
     Present(<<"+", "4">>), Present(<<"1", ".", "5">>), Present(<<"0", "1", "2">>),
     Present(<<"-">>)}

DateParams ==
    {Absent, Present(<<>>), Present(<<"i", "n", "v", "a", "l", "i", "d">>),
     Present(<<"2", "0", "2", "6", "-", "0", "2", "-", "3", "1">>), Present(<<"2", "0", "2", "6", "-", "0", "2", "-", "1", "0">>),
     Present(<<"2", "0", "2", "6", "-", "0", "1", "-", "0", "1">>), Present(<<"2", "0", "2", "4", "-", "0", "2", "-", "2", "9">>),
     Present(<<"2", "0", "2", "6", "-", "1", "-", "0", "1">>)}

NoParams == [status |-> Absent, page |-> Absent, from |-> Absent, to |-> Absent]

QueryIdle == qparams = NoParams /\ qresult = NoValue

QueryInit ==
    /\ qparams \in [status : StatusParams, page : PageParams, from : DateParams,
                    to : DateParams]
    /\ qresult = NoValue

QueryParse ==
    /\ qresult = NoValue
    /\ qresult' = parseListQuery(qparams)
    /\ UNCHANGED qparams
    /\ UNCHANGED notQuery

QueryNext ==
    \/ QueryParse

(***************************************************************************)
(* apps/web/lib/pagination.ts.                                             *)
(***************************************************************************)
\* Math.ceil(a / b) for b > 0
Ceil(a, b) == 0 - ((0 - a) \div b)

getOffset(page, pageSize) == Max2(0, (page - 1) * pageSize)

getTotalPages(totalCount, pageSize) ==
    IF totalCount <= 0 THEN 1 ELSE Max2(1, Ceil(totalCount, pageSize))

\* getVisiblePages that starts its window at the current page
getVisiblePagesFromCurrent(currentPage, totalPages, maxVisible) ==
    IF totalPages <= maxVisible THEN [index \in 1..totalPages |-> index]
    ELSE LET end == Min2(totalPages, currentPage + maxVisible - 1)
         IN [index \in 1..(end - currentPage + 1) |-> currentPage + index - 1]

getVisiblePages(currentPage, totalPages, maxVisible) ==
    IF totalPages <= maxVisible THEN [index \in 1..totalPages |-> index]
    ELSE LET half == maxVisible \div 2
             start0 == Max2(1, currentPage - half)
             end == Min2(totalPages, start0 + maxVisible - 1)
             start == IF end - start0 + 1 < maxVisible
                      THEN Max2(1, end - maxVisible + 1)
                      ELSE start0
         IN [index \in 1..(end - start + 1) |-> start + index - 1]

PageIdle ==
    /\ gin = [currentPage |-> 0, totalPages |-> 0, maxVisible |-> 0, totalCount |-> 0,
              pageSize |-> 0]
    /\ gout = NoValue

\* the page comes from parsePositiveInt, the page size is a positive constant
PageInit ==
    /\ gin \in [currentPage : 1..(MaxPages + 1), totalPages : 1..MaxPages,
                maxVisible : 1..MaxVisible, totalCount : (0 - 1)..MaxCount,
                pageSize : 1..MaxPageSize]
    /\ gout = NoValue

PageCompute ==
    /\ gout = NoValue
    /\ gout' = [offset |-> getOffset(gin.currentPage, gin.pageSize),
                totalPages |-> getTotalPages(gin.totalCount, gin.pageSize),
                visiblePages |->
                    getVisiblePages(gin.currentPage, gin.totalPages, gin.maxVisible)]
    /\ UNCHANGED gin
    /\ UNCHANGED notPage

PageNext ==
    \/ PageCompute

(***************************************************************************)
(* apps/web: ProposalDetailView.  A render with changed props or state     *)
(* runs the effects whose dependencies changed, in the order they are      *)
(* declared, each after the cleanup of its previous run.  A summary is its *)
(* status and how next_retry_at reads at the time it is looked at.         *)
(***************************************************************************)
SummaryStates ==
    {[status |-> "missing", next_retry_at |-> "absent"],
     [status |-> "pending", next_retry_at |-> "absent"],
     [status |-> "ready", next_retry_at |-> "absent"],
     [status |-> "failed", next_retry_at |-> "absent"],
     [status |-> "failed", next_retry_at |-> "unparseable"],
     [status |-> "failed", next_retry_at |-> "past"],
     [status |-> "failed", next_retry_at |-> "future"]}

isRetryEligible(summary) ==
    IF summary.status = "missing" THEN TRUE
    ELSE IF summary.status # "failed" THEN FALSE
    ELSE IF summary.next_retry_at = "absent" THEN TRUE
    ELSE IF summary.next_retry_at = "unparseable" THEN TRUE
    ELSE summary.next_retry_at = "past"

NoSummary == [status |-> "none", next_retry_at |-> "absent"]
NoPayload == [id |-> 0, load |-> 0, summary |-> NoSummary]

\* a load whose responses are applied whatever has happened since
NeverIgnored(load) == FALSE

\* the `ignore` flag of a load: set by the cleanup of the load effect, which
\* runs when proposalId or refreshTick changes and at unmount
Ignored(load) == load # Len(vloads) \/ ~vmounted

\* the load effect: load() up to its fetch
StartLoad(id) ==
    /\ Len(vloads) < MaxLoads
    /\ vloads' = Append(vloads, id)
    /\ vpending' = vpending \cup {Len(vloads) + 1}
    /\ vloading' = TRUE
    /\ verror' = FALSE
    /\ vnotfound' = FALSE

\* the cleanup of the trigger effect's previous run
TriggersIgnored == [k \in DOMAIN vtriggers |-> [vtriggers[k] EXCEPT !.ignore = TRUE]]

\* the trigger effect, run with (payload, proposalId) and the ref's value
TriggerEffect(payload, id, sent) ==
    IF payload = NoPayload \/ sent \/ ~isRetryEligible(payload.summary)
    THEN /\ vtriggers' = TriggersIgnored
         /\ vtriggerSent' = sent
    ELSE /\ vtriggers' = Append(TriggersIgnored,
                            [id |-> id, payload |-> payload, ignore |-> FALSE,
                             pending |-> TRUE])
         /\ vtriggerSent' = TRUE

ViewIdle ==
    /\ vmounted = FALSE /\ vid = 0 /\ vloads = <<>> /\ vpending = {} /\ vpayload = NoPayload
    /\ vloading = FALSE /\ vnotfound = FALSE /\ verror = FALSE /\ vtriggerSent = FALSE
    /\ vtriggers = <<>> /\ vdropped = {}

\* the component is mounted for proposal 1: its effects have run once
ViewInit ==
    /\ vmounted = TRUE /\ vid = 1 /\ vloads = <<1>> /\ vpending = {1} /\ vpayload = NoPayload
    /\ vloading = TRUE /\ vnotfound = FALSE /\ verror = FALSE /\ vtriggerSent = FALSE
    /\ vtriggers = <<>> /\ vdropped = {}

\* the fetch of a load ends with a detail payload
LoadSucceeds ==
    /\ \E load \in vpending : \E summary \in SummaryStates :
         /\ vpending' = vpending \ {load}
         /\ vdropped' = IF Ignored(load) THEN vdropped \cup {load} ELSE vdropped
         /\ IF Ignored(load)
            THEN UNCHANGED <<vpayload, vloading, vtriggerSent, vtriggers>>
            ELSE /\ vpayload' = [id |-> vloads[load], load |-> load, summary |-> summary]
                 /\ vloading' = FALSE
                 /\ TriggerEffect(vpayload', vid, vtriggerSent)
    /\ UNCHANGED <<vmounted, vid, vloads, vnotfound, verror>>
    /\ UNCHANGED notView

\* the fetch of a load ends with 404
LoadNotFound ==
    /\ \E load \in vpending :
         /\ vpending' = vpending \ {load}
         /\ vdropped' = IF Ignored(load) THEN vdropped \cup {load} ELSE vdropped
         /\ IF Ignored(load)
            THEN UNCHANGED <<vpayload, vloading, vnotfound, vtriggers>>
            ELSE /\ vnotfound' = TRUE
                 /\ vpayload' = NoPayload
                 /\ vloading' = FALSE
                 /\ vtriggers' = IF vpayload = NoPayload THEN vtriggers ELSE TriggersIgnored
    /\ UNCHANGED <<vmounted, vid, vloads, verror, vtriggerSent>>
    /\ UNCHANGED notView

\* the fetch of a load rejects, or answers with another non-OK status
LoadFails ==
    /\ \E load \in vpending :
         /\ vpending' = vpending \ {load}
         /\ vdropped' = IF Ignored(load) THEN vdropped \cup {load} ELSE vdropped
         /\ IF Ignored(load)
            THEN UNCHANGED <<vloading, verror>>
            ELSE verror' = TRUE /\ vloading' = FALSE
    /\ UNCHANGED <<vmounted, vid, vloads, vpayload, vnotfound, vtriggerSent, vtriggers>>
    /\ UNCHANGED notView

\* the parent renders the view with another proposalId: the ref is reset,
\* the load effect and then the trigger effect run again
ViewNavigates ==
    /\ vmounted /\ vid < MaxViews
    /\ vid' = vid + 1
    /\ StartLoad(vid')
    /\ TriggerEffect(vpayload, vid', FALSE)
    /\ UNCHANGED <<vmounted, vpayload>>
    /\ UNCHANGED vdropped
    /\ UNCHANGED notView

\* the Oppdater button of the rendered detail
ViewRefreshes ==
    /\ vmounted /\ ~vloading /\ ~vnotfound /\ ~verror /\ vpayload # NoPayload
    /\ StartLoad(vid)
    /\ UNCHANGED <<vmounted, vid, vpayload, vtriggerSent, vtriggers>>
    /\ UNCHANGED vdropped
    /\ UNCHANGED notView

\* the 4 s interval that runs while the summary is pending
ViewPolls ==
    /\ vmounted /\ vpayload.summary.status = "pending"
    /\ StartLoad(vid)
    /\ UNCHANGED <<vmounted, vid, vpayload, vtriggerSent, vtriggers>>
    /\ UNCHANGED vdropped
    /\ UNCHANGED notView

\* the trigger POST is answered (OK with a body, or not) or rejects
TriggerSettles ==
    /\ \E k \in DOMAIN vtriggers : \E accepted \in BOOLEAN :
         /\ vtriggers[k].pending
         /\ vtriggers' = [vtriggers EXCEPT ![k].pending = FALSE]
         /\ IF accepted /\ ~vtriggers[k].ignore
            THEN StartLoad(vid)
            ELSE UNCHANGED <<vloads, vpending, vloading, verror, vnotfound>>
    /\ UNCHANGED <<vmounted, vid, vpayload, vtriggerSent>>
    /\ UNCHANGED vdropped
    /\ UNCHANGED notView

\* the view is unmounted: every effect's cleanup runs
ViewUnmounts ==
    /\ vmounted
    /\ vmounted' = FALSE
    /\ vtriggers' = TriggersIgnored
    /\ UNCHANGED <<vid, vloads, vpending, vpayload, vloading, vnotfound, verror, vtriggerSent>>
    /\ UNCHANGED vdropped
    /\ UNCHANGED notView

ViewNext ==
    \/ LoadSucceeds
    \/ LoadNotFound
    \/ LoadFails
    \/ ViewNavigates
    \/ ViewRefreshes
    \/ ViewPolls
    \/ TriggerSettles
    \/ ViewUnmounts

(***************************************************************************)
(* generate-proposal-summary: the claim and the generation it gates.        *)
(* Each invocation asks claim_proposal_summary_generation for the proposal  *)
(* and status; the decision is the database's and is an input here.  The    *)
(* row updates run under withTimeout, which rejects when its timer wins but *)
(* does not cancel the update: such an update may still run later.          *)
(***************************************************************************)
Invocations == 1..MaxInvocations

DEFAULT_RETRY_COOLDOWN_SECONDS == 3600

ClaimDecisions == {"claimed", "already_ready", "already_pending", "cooldown"}

NoDecision == "none"

mapClaimDecision(decision) ==
    IF decision = "already_ready" THEN "already_ready"
    ELSE IF decision = "already_pending" THEN "pending"
    ELSE "cooldown"

\* the guard of the early return: every decision but "claimed" skips the generation
SkipsGenerationUnlessCooldown(decision) == decision \notin {"claimed", "cooldown"}

SkipsGeneration(decision) == decision # "claimed"

NullTime == [set |-> FALSE, at |-> 0]

TimeAt(t) == [set |-> TRUE, at |-> t]

NullText == [null |-> TRUE, text |-> ""]

Text(s) == [null |-> FALSE, text |-> s]

\* the message of the error thrown for a code
ErrorMessage(code) ==
    CASE code = "missing_source_url" -> "Proposal source URL is missing"
      [] code = "source_extract_failed" -> "Source extraction failed"
      [] code = "openai_server_error" -> "OpenAI server error"
      [] code = "timeout" -> "timeout"
      [] OTHER -> "Failed Supabase operation"

\* the columns persistSuccess writes: ready, stamped, retry and error columns cleared
persistSuccessKeepingError(row, now) ==
    [row EXCEPT !.generation_status = "ready",
                !.generated_at = TimeAt(now),
                !.next_retry_at = NullTime]

persistSuccess(row, now) ==
    [row EXCEPT !.generation_status = "ready",
                !.generated_at = TimeAt(now),
                !.next_retry_at = NullTime,
                !.last_error_code = NullText,
                !.last_error_message_safe = NullText]

\* the columns persistFailure writes
persistFailure(row, code, now) ==
    [row EXCEPT !.generation_status = "failed",
                !.generated_at = NullTime,
                !.next_retry_at = TimeAt(now + DEFAULT_RETRY_COOLDOWN_SECONDS * 1000),
                !.last_error_code = Text(code),
                !.last_error_message_safe = Text(ErrorMessage(code))]

\* an update as sent to the database: which function sent it, with what
SuccessUpdate(now) == [kind |-> "ready", code |-> "", now |-> now]

FailureUpdate(code, now) == [kind |-> "failed", code |-> code, now |-> now]

ApplyUpdate(row, update) ==
    IF update.kind = "ready"
    THEN persistSuccess(row, update.now)
    ELSE persistFailure(row, update.code, update.now)

\* the steps of the generation follow one another in the order of the try block
StageAfter(stage) ==
    CASE stage = "source" -> "documents"
      [] stage = "documents" -> "model"
      [] stage = "model" -> "success_write"

\* what a stage does to the outside world when it runs
StageEffect(stage) ==
    CASE stage = "source" -> "source_fetch"
      [] stage = "documents" -> "document_read"
      [] stage = "model" -> "model_call"

\* the codes a stage can fail with
StageFailures(stage) ==
    CASE stage = "source" -> {"missing_source_url", "source_extract_failed"}
      [] stage = "documents" -> {"supabase_error"}
      [] stage = "model" -> {"openai_server_error"}

\* an update settles as written, as refused by the database, or with the timer first;
\* the update of a lost race is still with the database, which may run it or not
UpdateOutcomes == {"written", "refused", "timeout"}

NoGenResponse == [http |-> 0, status |-> "", code |-> ""]

GenJson(status) == [http |-> 200, status |-> status, code |-> ""]

GenError(code) == [http |-> 500, status |-> "", code |-> code]

MissingRow ==
    [generation_status |-> "missing", generated_at |-> NullTime, next_retry_at |-> NullTime,
     last_error_code |-> NullText, last_error_message_safe |-> NullText]

\* the row before the invocations: none yet, or one of a generation that failed
InitialRows == {MissingRow, persistFailure(MissingRow, "timeout", 0)}

GenIdle ==
    /\ gdecision = [i \in Invocations |-> NoDecision]
    /\ gpc = [i \in Invocations |-> "done"]
    /\ geffects = [i \in Invocations |-> <<>>]
    /\ gcause = [i \in Invocations |-> ""]
    /\ gresponse = [i \in Invocations |-> NoGenResponse]
    /\ grow = MissingRow
    /\ glate = {}
    /\ gnow = 0

GenInit ==
    /\ gdecision = [i \in Invocations |-> NoDecision]
    /\ gpc = [i \in Invocations |-> "claim"]
    /\ geffects = [i \in Invocations |-> <<>>]
    /\ gcause = [i \in Invocations |-> ""]
    /\ gresponse = [i \in Invocations |-> NoGenResponse]
    /\ grow \in InitialRows
    /\ glate = {}
    /\ gnow \in 0..MaxNow

GenRespond(i, response) ==
    /\ gpc' = [gpc EXCEPT ![i] = "done"]
    /\ gresponse' = [gresponse EXCEPT ![i] = response]

\* the claim RPC answers with a decision; a granted claim leaves the row pending
GenClaim ==
    /\ \E i \in Invocations, decision \in ClaimDecisions :
         /\ gpc[i] = "claim"
         /\ gdecision' = [gdecision EXCEPT ![i] = decision]
         /\ IF SkipsGeneration(decision)
            THEN /\ GenRespond(i, GenJson(mapClaimDecision(decision)))
                 /\ UNCHANGED grow
            ELSE /\ gpc' = [gpc EXCEPT ![i] = "source"]
                 /\ grow' = [grow EXCEPT !.generation_status = "pending"]
                 /\ UNCHANGED gresponse
    /\ UNCHANGED <<geffects, gcause, glate, gnow>>
    /\ UNCHANGED notGen

\* the claim RPC fails, or answers without a usable row
GenClaimFails ==
    /\ \E i \in Invocations, code \in {"claim_invalid", "timeout"} :
         /\ gpc[i] = "claim"
         /\ GenRespond(i, GenError(code))
    /\ UNCHANGED <<gdecision, geffects, gcause, grow, glate, gnow>>
    /\ UNCHANGED notGen

\* fetchProposalSource, fetchLinkedDocuments or callOpenAiSummary returns
GenStageSucceeds ==
    /\ \E i \in Invocations :
         /\ gpc[i] \in {"source", "documents", "model"}
         /\ geffects' = [geffects EXCEPT ![i] = Append(@, StageEffect(gpc[i]))]
         /\ gpc' = [gpc EXCEPT ![i] = StageAfter(gpc[i])]
    /\ UNCHANGED <<gdecision, gcause, gresponse, grow, glate, gnow>>
    /\ UNCHANGED notGen

\* one of them throws: the catch block takes over; a missing source URL throws before
\* anything is fetched
GenStageFails ==
    /\ \E i \in Invocations :
         /\ gpc[i] \in {"source", "documents", "model"}
         /\ \E code \in StageFailures(gpc[i]) :
              /\ gcause' = [gcause EXCEPT ![i] = code]
              /\ geffects' = [geffects EXCEPT ![i] =
                                IF code = "missing_source_url"
                                THEN @
                                ELSE Append(@, StageEffect(gpc[i]))]
         /\ gpc' = [gpc EXCEPT ![i] = "failure_write"]
    /\ UNCHANGED <<gdecision, gresponse, grow, glate, gnow>>
    /\ UNCHANGED notGen

\* persistSuccess settles: written answers "started"; refused or timed out is caught
GenPersistSuccess ==
    /\ \E i \in Invocations, outcome \in UpdateOutcomes :
         /\ gpc[i] = "success_write"
         /\ geffects' = [geffects EXCEPT ![i] = Append(@, "row_write")]
         /\ grow' = IF outcome = "written" THEN persistSuccess(grow, gnow) ELSE grow
         /\ glate' = IF outcome = "timeout"
                     THEN glate \cup {SuccessUpdate(gnow)}
                     ELSE glate
         /\ IF outcome = "written"
            THEN /\ GenRespond(i, GenJson("started"))
                 /\ UNCHANGED gcause
            ELSE /\ gpc' = [gpc EXCEPT ![i] = "failure_write"]
                 /\ gcause' = [gcause EXCEPT ![i] =
                                 IF outcome = "refused" THEN "supabase_error" ELSE "timeout"]
                 /\ UNCHANGED gresponse
    /\ UNCHANGED <<gdecision, gnow>>
    /\ UNCHANGED notGen

\* persistFailure settles: written answers "failed"; otherwise 500 persist_failure
GenPersistFailure ==
    /\ \E i \in Invocations, outcome \in UpdateOutcomes :
         /\ gpc[i] = "failure_write"
         /\ geffects' = [geffects EXCEPT ![i] = Append(@, "row_write")]
         /\ grow' = IF outcome = "written"
                    THEN persistFailure(grow, gcause[i], gnow)
                    ELSE grow
         /\ glate' = IF outcome = "timeout"
                     THEN glate \cup {FailureUpdate(gcause[i], gnow)}
                     ELSE glate
         /\ GenRespond(i, IF outcome = "written"
                          THEN GenJson("failed")
                          ELSE GenError("persist_failure"))
    /\ UNCHANGED <<gdecision, gcause, gnow>>
    /\ UNCHANGED notGen

\* the database runs an update whose caller stopped waiting for it
GenLateUpdateRuns ==
    /\ \E update \in glate :
         /\ grow' = ApplyUpdate(grow, update)
         /\ glate' = glate \ {update}
    /\ UNCHANGED <<gdecision, gpc, geffects, gcause, gresponse, gnow>>
    /\ UNCHANGED notGen

GenNext ==
    \/ GenClaim
    \/ GenClaimFails
    \/ GenStageSucceeds
    \/ GenStageFails
    \/ GenPersistSuccess
    \/ GenPersistFailure
    \/ GenLateUpdateRuns

(***************************************************************************)
(* Specifications.                                                         *)
(***************************************************************************)
FetchSpecInit ==
    FetchInit /\ WtIdle /\ StoreInit /\ IngestIdle /\ MatcherIdle /\ TargetsInit /\ NormalizeIdle /\ DateIdle /\ ClassifyIdle
        /\ PollIdle
        /\ ExtractIdle
        /\ HandlerIdle
        /\ LogIdle
        /\ RouteIdle
        /\ QueryIdle
        /\ PageIdle
        /\ ViewIdle
        /\ GenIdle
FetchSpec == FetchSpecInit /\ [][FetchNext]_vars

WithTimeoutSpecInit ==
    WtInit /\ FetchIdle /\ StoreInit /\ IngestIdle /\ MatcherIdle /\ TargetsInit /\ NormalizeIdle /\ DateIdle /\ ClassifyIdle
        /\ PollIdle
        /\ ExtractIdle
        /\ HandlerIdle
        /\ LogIdle
        /\ RouteIdle
        /\ QueryIdle
        /\ PageIdle
        /\ ViewIdle
        /\ GenIdle
WithTimeoutSpec == WithTimeoutSpecInit /\ [][WtNext]_vars

IngestSpecInit ==
    IngestInit /\ StoreInit /\ FetchIdle /\ WtIdle /\ MatcherIdle /\ TargetsInit /\ NormalizeIdle /\ DateIdle /\ ClassifyIdle
        /\ PollIdle
        /\ ExtractIdle
        /\ HandlerIdle
        /\ LogIdle
        /\ RouteIdle
        /\ QueryIdle
        /\ PageIdle
        /\ ViewIdle
        /\ GenIdle
IngestSpec == IngestSpecInit /\ [][IngestNext]_vars

MatcherSpecInit ==
    MatcherInit /\ MatcherStoreInit /\ IngestIdle /\ FetchIdle /\ WtIdle /\ NormalizeIdle /\ DateIdle /\ ClassifyIdle
        /\ PollIdle
        /\ ExtractIdle
        /\ HandlerIdle
        /\ LogIdle
        /\ RouteIdle
        /\ QueryIdle
        /\ PageIdle
        /\ ViewIdle
        /\ GenIdle
MatcherSpec == MatcherSpecInit /\ [][MatcherNext]_vars

NormalizeSpecInit ==
    NormalizeInit /\ FetchIdle /\ WtIdle /\ StoreInit /\ IngestIdle /\ MatcherIdle /\ TargetsInit
        /\ DateIdle /\ ClassifyIdle /\ PollIdle

        /\ ExtractIdle
        /\ HandlerIdle
        /\ LogIdle
        /\ RouteIdle
        /\ QueryIdle
        /\ PageIdle
        /\ ViewIdle
        /\ GenIdle
DateSpecInit ==
    DateInit /\ FetchIdle /\ WtIdle /\ StoreInit /\ IngestIdle /\ MatcherIdle /\ TargetsInit
        /\ NormalizeIdle /\ ClassifyIdle /\ PollIdle
        /\ ExtractIdle
        /\ HandlerIdle
        /\ LogIdle
        /\ RouteIdle
        /\ QueryIdle
        /\ PageIdle
        /\ ViewIdle
        /\ GenIdle
DateSpec == DateSpecInit /\ [][DateNext]_vars

ClassifySpecInit ==
    ClassifyInit /\ FetchIdle /\ WtIdle /\ StoreInit /\ IngestIdle /\ MatcherIdle /\ TargetsInit
        /\ NormalizeIdle /\ DateIdle /\ PollIdle
        /\ ExtractIdle
        /\ HandlerIdle
        /\ LogIdle
        /\ RouteIdle
        /\ QueryIdle
        /\ PageIdle
        /\ ViewIdle
        /\ GenIdle
ClassifySpec == ClassifySpecInit /\ [][ClassifyNext]_vars

PollSpecInit ==
    PollInit /\ FetchIdle /\ WtIdle /\ StoreInit /\ IngestIdle /\ MatcherIdle /\ TargetsInit
        /\ NormalizeIdle /\ DateIdle /\ ClassifyIdle
        /\ ExtractIdle
        /\ HandlerIdle
        /\ LogIdle
        /\ RouteIdle
        /\ QueryIdle
        /\ PageIdle
        /\ ViewIdle
        /\ GenIdle
PollSpec == PollSpecInit /\ [][PollNext]_vars
NormalizeSpec == NormalizeSpecInit /\ [][NormalizeNext]_vars

ExtractSpecInit ==
    ExtractInit /\ FetchIdle /\ WtIdle /\ StoreInit /\ IngestIdle /\ MatcherIdle /\ TargetsInit
        /\ NormalizeIdle /\ DateIdle /\ ClassifyIdle /\ PollIdle
        /\ HandlerIdle
        /\ LogIdle
        /\ RouteIdle
        /\ QueryIdle
        /\ PageIdle
        /\ ViewIdle
        /\ GenIdle
ExtractSpec == ExtractSpecInit /\ [][ExtractNext]_vars

HandlerSpecInit ==
    HandlerInit /\ FetchIdle /\ WtIdle /\ StoreInit /\ IngestIdle /\ MatcherIdle /\ TargetsInit
        /\ NormalizeIdle /\ DateIdle /\ ClassifyIdle /\ PollIdle /\ ExtractIdle
        /\ LogIdle
        /\ RouteIdle
        /\ QueryIdle
        /\ PageIdle
        /\ ViewIdle
        /\ GenIdle
HandlerSpec == HandlerSpecInit /\ [][HandlerNext]_vars

LogSpecInit ==
    LogInit /\ FetchIdle /\ WtIdle /\ StoreInit /\ IngestIdle /\ MatcherIdle /\ TargetsInit
        /\ NormalizeIdle /\ DateIdle /\ ClassifyIdle /\ PollIdle /\ ExtractIdle /\ HandlerIdle
        /\ RouteIdle
        /\ QueryIdle
        /\ PageIdle
        /\ ViewIdle
        /\ GenIdle
LogSpec == LogSpecInit /\ [][LogNext]_vars

RouteSpecInit ==
    RouteInit /\ FetchIdle /\ WtIdle /\ StoreInit /\ IngestIdle /\ MatcherIdle /\ TargetsInit
        /\ NormalizeIdle /\ DateIdle /\ ClassifyIdle /\ PollIdle /\ ExtractIdle /\ HandlerIdle
        /\ LogIdle
        /\ QueryIdle
        /\ PageIdle
        /\ ViewIdle
        /\ GenIdle
RouteSpec == RouteSpecInit /\ [][RouteNext]_vars

QuerySpecInit ==
    QueryInit /\ FetchIdle /\ WtIdle /\ StoreInit /\ IngestIdle /\ MatcherIdle /\ TargetsInit
        /\ NormalizeIdle /\ DateIdle /\ ClassifyIdle /\ PollIdle /\ ExtractIdle /\ HandlerIdle
        /\ LogIdle /\ RouteIdle
        /\ PageIdle
        /\ ViewIdle
        /\ GenIdle
QuerySpec == QuerySpecInit /\ [][QueryNext]_vars

PageSpecInit ==
    PageInit /\ FetchIdle /\ WtIdle /\ StoreInit /\ IngestIdle /\ MatcherIdle /\ TargetsInit
        /\ NormalizeIdle /\ DateIdle /\ ClassifyIdle /\ PollIdle /\ ExtractIdle /\ HandlerIdle
        /\ LogIdle /\ RouteIdle /\ QueryIdle
        /\ ViewIdle
        /\ GenIdle
PageSpec == PageSpecInit /\ [][PageNext]_vars

ViewSpecInit ==
    ViewInit /\ FetchIdle /\ WtIdle /\ StoreInit /\ IngestIdle /\ MatcherIdle /\ TargetsInit
        /\ NormalizeIdle /\ DateIdle /\ ClassifyIdle /\ PollIdle /\ ExtractIdle /\ HandlerIdle
        /\ LogIdle /\ RouteIdle /\ QueryIdle /\ PageIdle
        /\ GenIdle
ViewSpec == ViewSpecInit /\ [][ViewNext]_vars

GenSpecInit ==
    GenInit /\ FetchIdle /\ WtIdle /\ StoreInit /\ IngestIdle /\ MatcherIdle /\ TargetsInit
        /\ NormalizeIdle /\ DateIdle /\ ClassifyIdle /\ PollIdle /\ ExtractIdle /\ HandlerIdle
        /\ LogIdle /\ RouteIdle /\ QueryIdle /\ PageIdle /\ ViewIdle
GenSpec == GenSpecInit /\ [][GenNext]_vars

\* The code's own steps are fair: it runs to its first await, and an armed
\* timer fires unless the awaited operation settles first.  Nothing obliges a
\* collaborator to answer.
FetchFairSpec ==
    /\ FetchSpecInit
    /\ [][FetchNext]_vars
    /\ WF_vars(FetchStart)
    /\ WF_vars(JinaTimeout)
    /\ WF_vars(DirectTimeout)

(***************************************************************************)
(* Claims about the detail fetch.                                          *)
(***************************************************************************)
Settled == fpc \in {"returned", "threw"}

\* C1: the proxy is tried first and the direct fetch is issued only after the
\* proxy attempt has failed; when the proxy attempt succeeds no direct fetch
\* is ever issued; the returned source (text and method) is that of the
\* first attempt that succeeded.
C1_ProxyFirstDirectOnlyOnFailure ==
    /\ issued \in {<<>>, <<"jina">>, <<"jina", "direct">>}
    /\ (Len(issued) = 2) <=> (jinaErr # NoError)
    /\ fpc = "returned" =>
          IF jinaErr = NoError
          THEN /\ issued = <<"jina">>
               /\ directBody = NoValue
               /\ fresult = [text |-> Trim(jinaBody), method |-> "jina",
                             sourceUrl |-> fLink]
          ELSE /\ issued = <<"jina", "direct">>
               /\ fresult = [text |-> extractInnholdSection(directBody),
                             method |-> "direct_scrape", sourceUrl |-> fLink]

C1_Witness ==
    /\ fpc = "returned"
    /\ fresult # NoValue
    /\ fresult.method = "jina"
    /\ issued = <<"jina">>

\* C2: a source text is accepted only if it has at least
\* MIN_SOURCE_TEXT_LENGTH characters, for the proxy and for the direct
\* attempt alike: a too short 200-OK proxy reply fails attempt 1 so that the
\* fallback runs, a missing or too short direct extraction fails the whole
\* fetch, and no SourceResult shorter than the threshold is returned.
C2_MinimumLengthOnBothAttempts ==
    /\ fresult # NoValue => RawLength(fresult.text) >= MIN_SOURCE_TEXT_LENGTH
    /\ jinaBody # NoValue =>
          IF RawLength(Trim(jinaBody)) >= MIN_SOURCE_TEXT_LENGTH
          THEN fpc = "returned" /\ fresult.method = "jina"
          ELSE /\ jinaErr = Err("jina_source_too_short")
               /\ issued = <<"jina", "direct">>
    /\ directBody # NoValue =>
          LET extracted == extractInnholdSection(directBody) IN
          IF extracted # NoValue /\ RawLength(extracted) >= MIN_SOURCE_TEXT_LENGTH
          THEN fpc = "returned" /\ fresult.method = "direct_scrape"
          ELSE /\ fpc = "threw"
               /\ ferror = Err("source_extract_failed")
               /\ fresult = NoValue

C2_Witness ==
    /\ jinaBody # NoValue
    /\ jinaBody.core = MIN_SOURCE_TEXT_LENGTH - 1
    /\ directBody # NoValue
    /\ fpc = "returned"
    /\ RawLength(fresult.text) = MIN_SOURCE_TEXT_LENGTH

\* C4: no operation blocks indefinitely: the detail fetch of the summary
\* handler eventually returns or throws, so that the handler can answer, even
\* when a collaborator accepts the request and never finishes its body.
C4_FetchEventuallySettles == <>Settled

(***************************************************************************)
(* Claims about withTimeout.                                               *)
(***************************************************************************)
\* C3: a timeout-bound call races the operation against a timer: whichever
\* settles first decides the outcome (the operation's value or error, or a
\* 'timeout' error), and once withTimeout has returned no timer of it
\* remains pending.
C3_RaceDecidesAndTimerCancelled ==
    wtPc = "returned" =>
        /\ wtOutcome # NoValue
        /\ wtPromise = "pending" => wtOutcome = [kind |-> "error", v |-> "timeout"]
        /\ wtTimers = {}

(***************************************************************************)
(* Claims about ingest-stortinget.                                         *)
(***************************************************************************)
\* the handler has answered after running the item loop
BatchAnswered ==
    /\ ipc = "responded"
    /\ ireq.secretOk /\ ireq.configOk
    /\ ireq.body.kind = "items"
    /\ Len(ireq.body.items) > 0

\* C5: a failure (storage error or timeout) of one item never aborts its
\* siblings: every item of the batch is attempted exactly once, in batch
\* order, and the response reports processed = the batch size.
C5_EveryItemAttemptedOnceInOrder ==
    /\ \A k \in DOMAIN ilog : ilog[k].pos = k /\ ilog[k].id = ireq.body.items[k].stortinget_id
    /\ ipc = "await_upsert" => Len(ilog) = ii - 1
    /\ BatchAnswered =>
          /\ Len(ilog) = Len(ireq.body.items)
          /\ iresponse.processed = Len(ireq.body.items)

C5_Witness ==
    /\ BatchAnswered
    /\ Len(ilog) = 2
    /\ ilog[1].outcome \in {"timeout", "resolved_error"}
    /\ ilog[2].outcome = "ok"

\* C6: every item of the batch is reported exactly once: counted in succeeded
\* if and only if its upsert completed without a storage error or timeout,
\* and otherwise listed in failures with its stortinget_id; so
\* succeeded + failed = processed, and an item whose upsert returned a storage
\* error is never counted as succeeded.
C6_PerItemSuccessOrFailure ==
    BatchAnswered =>
        /\ \A k \in DOMAIN ilog :
              /\ ilog[k].counted <=> (ilog[k].outcome = "ok")
              /\ ilog[k].reported <=> ~ilog[k].counted
        /\ iresponse.succeeded = Cardinality({k \in DOMAIN ilog : ilog[k].outcome = "ok"})
        /\ iresponse.failed = Cardinality({k \in DOMAIN ilog : ilog[k].outcome # "ok"})
        /\ \A f \in DOMAIN iresponse.failures :
              \E k \in DOMAIN ilog :
                  ilog[k].outcome # "ok" /\ iresponse.failures[f].stortinget_id = ilog[k].id
        /\ iresponse.succeeded + iresponse.failed = iresponse.processed

\* the stored rows hold each stortinget_id at most once, and a delivered
\* duplicate whose upsert completed is in no failure list
AtMostOneRowPerStortingetId ==
    /\ \A j, k \in DOMAIN law_proposals :
          law_proposals[j].stortinget_id = law_proposals[k].stortinget_id => j = k
    /\ \A k \in DOMAIN ilog :
          ilog[k].existed /\ ilog[k].outcome = "ok" => ~ilog[k].reported /\ ilog[k].counted
    /\ (BatchAnswered /\ \A k \in DOMAIN ilog : ilog[k].existed /\ ilog[k].outcome = "ok")
          => iresponse.status = "ok" /\ iresponse.failures = <<>>

\* a step of the item loop leaves every row that is already stored as it is
IngestKeepsStoredRows ==
    ilog' # ilog =>
        /\ Len(law_proposals') >= Len(law_proposals)
        /\ \A k \in DOMAIN law_proposals : law_proposals'[k] = law_proposals[k]

NoDuplicateLinkRows == \A pair \in LinkPairs : proposal_targets[pair] <= 1

LinkStepIdempotent ==
    (mpc = "await_link" /\ mpc' = "responded") =>
        LET requested == {mreq.proposal_id} \X mdocs
            before == LinkedPairs(proposal_targets)
            after == LinkedPairs(proposal_targets')
        IN /\ after \in {before, before \cup requested}
           /\ mresponse'.status = "linked" => after = before \cup requested
           /\ requested \subseteq before => proposal_targets' = proposal_targets

C8_LinkingIdempotentOnPair == []NoDuplicateLinkRows /\ [][LinkStepIdempotent]_vars

\* the same links were written a second time and the request was answered "linked"
C8_Witness ==
    /\ mpc = "responded"
    /\ mresponse.status = "linked"
    /\ mlink.applied /\ mlink.conflicts
    /\ Cardinality(mdocs) = 2

\* C9: after a matcher call was processed successfully (answered 200), the
\* stored proposal's enforcement_date equals the classification the request
\* carried, and is not null.
C9_EnforcementClassificationStored ==
    (mpc = "responded" /\ mresponse.http = 200) =>
        /\ law_proposals[mreq.proposal_id].enforcement_date = mreq.enforcement_date
        /\ law_proposals[mreq.proposal_id].enforcement_date # "null"

\* C10: normalizeEnforcementDate(v) returns the trimmed string when v is a
\* string that trims to one of the five sentinel tokens or to a real
\* calendar date written YYYY-MM-DD, and null for every other value; a
\* result is never both a token and a date.
IsLeapYear(y) == y % 4 = 0 /\ (y % 100 # 0 \/ y % 400 = 0)

DaysInMonth(y, m) ==
    IF m = 2 THEN (IF IsLeapYear(y) THEN 29 ELSE 28)
    ELSE IF m \in {4, 6, 9, 11} THEN 30 ELSE 31

IsCalendarDate(s) ==
    /\ Len(s) = 10
    /\ \A k \in DOMAIN s : IF k \in {5, 8} THEN s[k] = "-" ELSE IsDigit(s[k])
    /\ NumberAt(s, 6, 7) \in 1..12
    /\ NumberAt(s, 9, 10) \in 1..DaysInMonth(NumberAt(s, 1, 4), NumberAt(s, 6, 7))

IsClassification(s) == s \in ENFORCEMENT_TOKENS \/ IsCalendarDate(s)

C10_NormalizeEnforcementDate ==
    nresult # NoValue =>
        /\ nresult = IF nvalue.type = "string" /\ IsClassification(TrimString(nvalue.chars))
                     THEN StringResult(TrimString(nvalue.chars))
                     ELSE NullResult
        /\ ~nresult.isNull =>
              ~(nresult.chars \in ENFORCEMENT_TOKENS /\ IsCalendarDate(nresult.chars))

\* a padded 29 February of a leap year came back trimmed
C10_Witness ==
    /\ nresult # NoValue /\ ~nresult.isNull
    /\ nresult.chars # nvalue.chars
    /\ IsCalendarDate(nresult.chars)
    /\ NumberAt(nresult.chars, 6, 7) = 2 /\ NumberAt(nresult.chars, 9, 10) = 29

\* C11: isValidIsoDate and isIsoDate accept a string exactly when it is
\* YYYY-MM-DD with a month 01..12 and a day that month has under the
\* Gregorian leap-year rule; so the two agree on every input.
C11_DateValidationCalendarCorrect ==
    dresult # NoValue =>
        /\ dresult.edge = IsCalendarDate(dvalue)
        /\ dresult.web = IsCalendarDate(dvalue)

\* 29 February of a leap year was accepted by both
C11_Witness ==
    /\ dresult # NoValue
    /\ dresult.edge /\ dresult.web
    /\ NumberAt(dvalue, 6, 7) = 2 /\ NumberAt(dvalue, 9, 10) = 29

\* C12: every failure the ingestion and matcher functions report to their
\* caller carries a code, a human-safe message and a retryable flag: each
\* failed item of a batch answer, and the body of a failed matcher request.
C12_FailuresCarryCodeMessageRetryable ==
    /\ iresponse # NoValue =>
          \A k \in DOMAIN iresponse.failures :
              {"code", "message_safe", "retryable"} \subseteq DOMAIN iresponse.failures[k]
    /\ (mpc = "responded" /\ mresponse.status = "error" /\ mresponse.http = 500) =>
          {"code", "error", "retryable"} \subseteq mresponse.keys

\* C13: the classifiers assign retryability by cause.  An error that is a
\* timeout is classified as timeout and retryable whatever code it carries;
\* a Postgres code beginning with 23 and the authorization code 42501 are
\* non-retryable; a model API 401/403 is non-retryable, a 429 and a 5xx are
\* retryable.
RetryabilityByCause(error, class) ==
    /\ isTimeoutError(error) => class.code = "timeout" /\ class.retryable
    /\ (~isTimeoutError(error) /\ (IsIntegrityCode(error.code) \/ error.code = "42501"))
          => ~class.retryable

C13_RetryabilityByCause ==
    cresult # NoValue =>
        /\ ~cerror.meta.present =>
              /\ RetryabilityByCause(cerror, cresult.match)
              /\ RetryabilityByCause(cerror, cresult.supabase)
              /\ RetryabilityByCause(cerror, cresult.ingest)
              /\ RetryabilityByCause(cerror, cresult.generation)
        /\ cstatus \in {401, 403} => ~cresult.openai.retryable
        /\ (cstatus = 429 \/ cstatus >= 500) => cresult.openai.retryable

\* C14: between the upserts of two consecutive items of a batch a delay
\* elapses, whether the earlier upsert succeeded or failed: the upsert of a
\* later item is issued only from a state in which the handler was sleeping,
\* never by the step that ends the upsert before it.
C14_UpsertsArePaced ==
    [][(ipc' = "await_upsert" /\ ii' > 1 /\ ii' # ii) => ipc = "sleep"]_vars

\* C15: the marker is written only as the last step of a cycle whose new
\* entries were all forwarded: whatever happens, every entry with a link
\* that the stored marker has moved past (published after the marker the
\* poller started with, and not after the stored one) was forwarded.
C15_MarkerNeverPassesUnforwarded ==
    \A k \in DOMAIN feed :
        (feed[k].hasLink /\ first_marker < feed[k].id /\ feed[k].id <= seen_marker)
            => feed[k].id \in forwarded

\* a cycle failed with an entry forwarded and another not, and the marker stayed
C15_Witness ==
    /\ ppc = "idle"
    /\ seen_marker = first_marker
    /\ forwarded # {}
    /\ \E k \in DOMAIN feed : feed[k].hasLink /\ feed[k].id \notin forwarded
    /\ Len(detected) = 0

\* C16: over a newest-first batch detect_new returns, when the marker names
\* an entry of the batch, exactly the entries before the first such entry,
\* and otherwise (no marker, or none of the batch's entries) all entries;
\* entries without a link are left out and an empty batch gives nothing.
MarkerPositions == {k \in DOMAIN pbatch : pbatch[k].hasLink /\ pbatch[k].id = seen_marker}

EntriesWithLink(entries) == SelectSeq(entries, LAMBDA entry : entry.hasLink)

C16_DetectNewIsPrefixBeforeMarker ==
    ppc = "forwarding" =>
        /\ (seen_marker # 0 /\ MarkerPositions # {}) =>
              \E k \in MarkerPositions :
                  /\ \A j \in MarkerPositions : k <= j
                  /\ pnew = EntriesWithLink(SubSeq(pbatch, 1, k - 1))
        /\ (seen_marker = 0 \/ MarkerPositions = {}) => pnew = EntriesWithLink(pbatch)
        /\ pbatch = <<>> => pnew = <<>>

\* the marker sits behind two newer entries, one of them without a link
C16_Witness ==
    /\ ppc = "forwarding"
    /\ \E k \in MarkerPositions : k = 3
    /\ Len(pnew) = 1

\* C17 as stated: with the identifier of the LAST element of the result as
\* the new marker, detect_new on the same batch returns none of it again.
C17_LastElementAsMarkerNoOverlap ==
    (ppc = "forwarding" /\ Len(pnew) > 0) =>
        EntryIds(detect_new(pbatch, pnew[Len(pnew)].id)) \cap EntryIds(pnew) = {}

\* C17, amended: with the identifier of the FIRST (newest) element of the
\* result as the new marker, detect_new on the same batch returns none of
\* the result again, and over the cycles that advance the marker no
\* identifier of the feed is returned twice.
C17_FirstElementAsMarkerNoOverlap ==
    /\ (ppc = "forwarding" /\ Len(pnew) > 0) =>
          EntryIds(detect_new(pbatch, pnew[1].id)) \cap EntryIds(pnew) = {}
    /\ \A i, j \in DOMAIN detected : i # j => detected[i] \cap detected[j] = {}

\* two cycles advanced the marker, the first with two new entries
C17_Witness ==
    /\ Len(detected) = 2
    /\ Cardinality(detected[1]) = 2
    /\ detected[2] # {}

(***************************************************************************)
(* Claims about enforcement extraction.                                    *)
(***************************************************************************)
\* the real calendar days among the text's written commencement dates
RealCommencementDates(text) ==
    {DigitsOf(text.dates[k].year, 4) \o <<"-">> \o DigitsOf(MonthNumber(text.dates[k].month), 2)
        \o <<"-">> \o DigitsOf(text.dates[k].day, 2) :
     k \in {j \in DOMAIN text.dates :
              /\ MonthNumber(text.dates[j].month) \in 1..12
              /\ text.dates[j].day \in
                    1..DaysInMonth(text.dates[j].year, MonthNumber(text.dates[j].month))}}

\* C18: extract_enforcement decides by first match in a fixed priority:
\* deferred-authority phrasing gives KONGEN_BESTEMMER even next to immediate
\* phrasing or dates; otherwise immediate phrasing gives STRAKS even next to
\* dates; otherwise several distinct commencement dates give FLERE_DATOER;
\* otherwise exactly one valid date gives that ISO date; otherwise
\* PARSER_IKKE_FUNNET; a failed fetch yields PARSER_FEIL without text
\* analysis.  Every linking request holds exactly one classification.
C18_ExtractEnforcementPriority ==
    erequest # NoLinkingRequest =>
        /\ Len(erequest.enforcement_date) = 1
        /\ IsClassification(erequest.enforcement_date[1])
        /\ ~efetched => erequest.enforcement_date[1] = PARSER_FEIL /\ eanalysed = 0
        /\ efetched =>
            LET c == erequest.enforcement_date[1]
                dates == RealCommencementDates(etext)
            IN /\ etext.deferred => c = KONGEN_BESTEMMER
               /\ ~etext.deferred /\ etext.immediate => c = STRAKS
               /\ ~etext.deferred /\ ~etext.immediate =>
                    /\ Cardinality(dates) > 1 => c = FLERE_DATOER
                    /\ Cardinality(dates) = 1 => c \in dates /\ IsCalendarDate(c)
                    /\ dates = {} => c = PARSER_IKKE_FUNNET

\* a text with deferred and immediate phrasing and two distinct real dates
\* was classified KONGEN_BESTEMMER
C18_Witness ==
    /\ erequest # NoLinkingRequest
    /\ efetched /\ etext.deferred /\ etext.immediate
    /\ Cardinality(RealCommencementDates(etext)) = 2
    /\ erequest.enforcement_date = <<KONGEN_BESTEMMER>>

(***************************************************************************)
(* Claims about the handlers' request id and shared secret.                *)
(***************************************************************************)
\* C19: for a request with a non-blank x-request-id header every response,
\* on the success path and on every error path including the unhandled
\* exception path, carries X-Request-ID equal to the trimmed value and the
\* same value as request_id in its body; for a missing or blank header a fresh
\* id is generated and used consistently for the request.
C19_RequestIdPropagated ==
    hresponse # NoValue =>
        LET trimmed == TrimString(hheaders.request_id.chars) IN
        /\ hresponse.header_request_id = hresponse.body_request_id
        /\ IF hheaders.request_id.present /\ Len(trimmed) > 0
           THEN hresponse.header_request_id = Incoming(trimmed)
           ELSE /\ hresponse.header_request_id.uuid > 0
                /\ hlog = {hresponse.header_request_id}

\* C20: a request whose secret header is missing, empty or different from
\* the configured secret (also when none is configured) is answered 401 and
\* causes no storage read or write and no outbound fetch; the secret check
\* precedes the configuration check, body parsing and every side effect.
C20_SharedSecretProtects ==
    LET secret == hheaders.secret
        refused ==
            \/ ~secret.present
            \/ TrimString(secret.chars) = <<>>
            \/ ~henv.secret.present
            \/ TrimString(secret.chars) # henv.secret.chars
    IN /\ hpc \in {"config", "body", "work"} => ~refused
       /\ heffects # <<>> => ~refused
       /\ hresponse # NoValue =>
            (refused <=> hresponse.status = 401) /\ (refused => heffects = <<>>)

\* a request with the wrong secret, sent to a function whose configuration is
\* incomplete and with a body that does not parse, was answered 401
C20_Witness ==
    /\ hresponse # NoValue /\ hresponse.status = 401
    /\ hheaders.secret = Present(<<"b">>) /\ henv.secret = Present(<<"a">>)
    /\ ~henv.config /\ hbody = "invalid_json"

(***************************************************************************)
(* Claims about log redaction.                                             *)
(***************************************************************************)
SensitiveTerms ==
    {<<"s", "e", "c", "r", "e", "t">>,
     <<"t", "o", "k", "e", "n">>,
     <<"p", "a", "s", "s", "w", "o", "r", "d">>,
     <<"a", "u", "t", "h", "o", "r", "i", "z", "a", "t", "i", "o", "n">>,
     <<"c", "o", "o", "k", "i", "e">>,
     <<"d", "s", "n">>,
     <<"p", "a", "y", "l", "o", "a", "d">>,
     <<"b", "o", "d", "y">>,
     <<"h", "t", "m", "l">>,
     <<"c", "o", "n", "t", "e", "n", "t">>,
     <<"t", "e", "x", "t">>}
    \cup {owner \o sep \o <<"k", "e", "y">> :
            owner \in {<<"a", "p", "i">>, <<"p", "r", "i", "v", "a", "t", "e">>},
            sep \in {<<>>, <<"_">>, <<"-">>}}

InLowerCase(key) == [k \in DOMAIN key |-> ToLower(key[k])]

ContainsSensitiveTerm(key) ==
    \E from \in DOMAIN key : \E to \in DOMAIN key :
        SubSeq(InLowerCase(key), from, to) \in SensitiveTerms

EndsIn(key, suffixes) ==
    \E suffix \in suffixes :
        /\ Len(key) >= Len(suffix)
        /\ SubSeq(InLowerCase(key), Len(key) - Len(suffix) + 1, Len(key)) = suffix

UnderscoreMetricSuffixes ==
    {<<"_", "t", "y", "p", "e">>, <<"_", "l", "e", "n", "g", "t", "h">>,
     <<"_", "c", "o", "u", "n", "t">>}
HyphenMetricSuffixes ==
    {<<"-", "t", "y", "p", "e">>, <<"-", "l", "e", "n", "g", "t", "h">>,
     <<"-", "c", "o", "u", "n", "t">>}

\* the keys of the context that carry a value
LoggedKeys == {key \in DOMAIN lcontext : lcontext[key] # Undefined}

C22_SummaryRouteStatuses ==
    /\ rtcalls <= 1
    /\ rtresponse # NoValue =>
        IF ~rtid.shaped THEN rtresponse.status = 404 /\ rtcalls = 0
        ELSE IF rtupstream = NoUpstream THEN rtresponse.status \in {404, 500}
        ELSE IF rtupstream.status \notin 200..299
        THEN rtresponse.status = (IF rtupstream.status >= 500 THEN 502 ELSE rtupstream.status)
        ELSE IF ~(/\ rtupstream.body.kind = "object"
                  /\ rtupstream.body.status \in {JsonString(s) : s \in TRIGGER_STATUSES})
        THEN rtresponse.status = 502
        ELSE rtresponse = RouteResponse(200, rtupstream.body)

(***************************************************************************)
(* Claims about parseListQuery.                                            *)
(***************************************************************************)
\* the calendar day a valid date string names, as year, month, day
DateTriple(s) == <<NumberAt(s, 1, 4), NumberAt(s, 6, 7), NumberAt(s, 9, 10)>>

\* a is no later than b
NotLater(a, b) ==
    \/ a[1] < b[1]
    \/ a[1] = b[1] /\ a[2] < b[2]
    \/ a[1] = b[1] /\ a[2] = b[2] /\ a[3] <= b[3]

\* a page parameter without a positive number at its start
NoPositiveNumber(value) ==
    \/ ~value.present
    \/ LET rest == TrimString(value.chars)
           digits == IF Len(rest) > 0 /\ rest[1] = "+" THEN Tail(rest) ELSE rest
       IN \/ Len(digits) = 0
          \/ ~IsDigit(digits[1])
          \/ \A k \in DOMAIN digits :
               (\A j \in 1..k : IsDigit(digits[j])) => digits[k] = "0"

C24_PaginationHelpers ==
    gout # NoValue =>
        /\ (gin.totalPages >= 1 /\ gin.currentPage \in 1..gin.totalPages
                /\ gin.maxVisible >= 1) =>
              LET pages == gout.visiblePages IN
              /\ Len(pages) = IF gin.totalPages < gin.maxVisible THEN gin.totalPages
                              ELSE gin.maxVisible
              /\ \A k \in 1..(Len(pages) - 1) : pages[k + 1] = pages[k] + 1
              /\ \A k \in DOMAIN pages : pages[k] \in 1..gin.totalPages
              /\ \E k \in DOMAIN pages : pages[k] = gin.currentPage
        /\ gout.totalPages >= 1
        /\ gin.totalCount > 0 =>
              /\ gout.totalPages * gin.pageSize >= gin.totalCount
              /\ (gout.totalPages - 1) * gin.pageSize < gin.totalCount
        /\ gout.offset = (gin.currentPage - 1) * gin.pageSize
        /\ gout.offset >= 0

\* the window of a page near the end of a long list was shifted back
C24_Witness ==
    /\ gout # NoValue
    /\ gin.totalPages > gin.maxVisible /\ gin.maxVisible >= 3
    /\ gin.currentPage = gin.totalPages
    /\ gout.visiblePages[Len(gout.visiblePages)] = gin.totalPages
    /\ Len(gout.visiblePages) = gin.maxVisible
    /\ gin.totalCount > gin.pageSize /\ gout.totalPages > 1 /\ gout.offset > 0

(***************************************************************************)
(* Claims about the proposal detail view.                                  *)
(***************************************************************************)
\* C25: the detail view sends a summary trigger only after a detail load of
\* the viewed proposal whose summary is retry-eligible (missing, or failed
\* with next_retry_at absent, unparseable or not in the future), never for
\* pending or ready, and at most one trigger per viewed proposal id however
\* many reloads, refreshes and polls happen.
C25_TriggerOnlyAfterEligibleLoad ==
    /\ \A k \in DOMAIN vtriggers :
         /\ vtriggers[k].payload.id = vtriggers[k].id
         /\ vtriggers[k].payload.load \in DOMAIN vloads
         /\ \/ vtriggers[k].payload.summary.status = "missing"
            \/ /\ vtriggers[k].payload.summary.status = "failed"
               /\ vtriggers[k].payload.summary.next_retry_at # "future"
    /\ \A j \in DOMAIN vtriggers : \A k \in DOMAIN vtriggers :
         vtriggers[j].id = vtriggers[k].id => j = k

\* what the view renders: the skeleton, the 404 alert, the error alert, the
\* detail of the payload, or nothing
Shown ==
    IF vloading THEN "loading"
    ELSE IF vnotfound THEN "not_found"
    ELSE IF verror THEN "error"
    ELSE IF vpayload # NoPayload THEN "detail"
    ELSE "nothing"

\* C28: a response of a superseded load (one started before proposalId or the
\* refresh tick changed, or before the unmount) never changes the displayed
\* state: whatever the order of the responses, the view leaves the loading
\* state only through its most recently started load, the detail it shows was
\* set by that load, and the loading flag is cleared once that load has
\* finished in any way.
C28_SupersededLoadChangesNothing ==
    vmounted =>
        /\ Shown # "loading" => Len(vloads) \notin vpending
        /\ Shown = "detail" => vpayload.load = Len(vloads) /\ vpayload.id = vid
        /\ Len(vloads) \notin vpending => ~vloading

\* the first load's response arrived after the view had moved on to proposal
\* 2, whose detail is shown
C28_Witness ==
    /\ vmounted /\ 1 \in vdropped
    /\ vid = 2 /\ Shown = "detail"

\* C26: summary generation is gated by the claim.  Only an invocation whose
\* claim decision is "claimed" fetches the source, reads documents, calls the
\* model or writes the row; an invocation answered already_ready,
\* already_pending or cooldown has done none of these and answers 200 with
\* status already_ready, pending and cooldown respectively; and no more
\* generations are in flight than claims were granted.
GenerationInFlight(i) == gpc[i] \in {"source", "documents", "model", "success_write", "failure_write"}

C26_GenerationGatedByClaim ==
    /\ \A i \in Invocations :
         /\ geffects[i] # <<>> => gdecision[i] = "claimed"
         /\ GenerationInFlight(i) => gdecision[i] = "claimed"
         /\ gdecision[i] = "already_ready" =>
              geffects[i] = <<>> /\ gresponse[i] = [http |-> 200, status |-> "already_ready", code |-> ""]
         /\ gdecision[i] = "already_pending" =>
              geffects[i] = <<>> /\ gresponse[i] = [http |-> 200, status |-> "pending", code |-> ""]
         /\ gdecision[i] = "cooldown" =>
              geffects[i] = <<>> /\ gresponse[i] = [http |-> 200, status |-> "cooldown", code |-> ""]
    /\ Cardinality({i \in Invocations : GenerationInFlight(i)})
         <= Cardinality({i \in Invocations : gdecision[i] = "claimed"})

\* a trigger answered cooldown while another invocation, granted the claim, has
\* called the model
C26_Witness ==
    \E i, j \in Invocations :
        /\ gdecision[i] = "cooldown" /\ gresponse[i].status = "cooldown"
        /\ gdecision[j] = "claimed" /\ GenerationInFlight(j)
        /\ Len(geffects[j]) = 3

\* C27: a claimed generation reports only what it has persisted.  It answers
\* "started" only in the step that wrote the row as ready with next_retry_at
\* and the last-error fields cleared; it answers "failed" only in the step
\* that wrote the row as failed with generated_at null, the error's code and
\* next_retry_at = now + retry cooldown; when the failure write does not go
\* through it answers 500 persist_failure; every failure after the claim goes
\* through the failure write; and the row is never ready while carrying
\* error fields.
RowReadyAndClean(row) ==
    /\ row.generation_status = "ready"
    /\ row.generated_at.set
    /\ ~row.next_retry_at.set
    /\ row.last_error_code.null
    /\ row.last_error_message_safe.null

RowFailedWith(row, code, now) ==
    /\ row.generation_status = "failed"
    /\ ~row.generated_at.set
    /\ ~row.last_error_code.null /\ row.last_error_code.text = code /\ code # ""
    /\ row.next_retry_at = [set |-> TRUE, at |-> now + 3600 * 1000]

ReadyRowCarriesNoError ==
    grow.generation_status = "ready" =>
        grow.last_error_code.null /\ grow.last_error_message_safe.null

AnswersOnlyWhatWasPersisted ==
    \A i \in Invocations :
        /\ (gresponse'[i].status = "started" /\ gresponse[i].status # "started") =>
              /\ gpc[i] = "success_write"
              /\ RowReadyAndClean(grow')
        /\ (gresponse'[i].status = "failed" /\ gresponse[i].status # "failed") =>
              /\ gpc[i] = "failure_write"
              /\ RowFailedWith(grow', gcause[i], gnow)
        /\ (gpc[i] = "failure_write" /\ gpc'[i] = "done") =>
              \/ gresponse'[i] = [http |-> 200, status |-> "failed", code |-> ""]
              \/ /\ gresponse'[i] = [http |-> 500, status |-> "", code |-> "persist_failure"]
                 /\ grow' = grow
        /\ (gcause'[i] # gcause[i]) => gpc'[i] = "failure_write"
        /\ (GenerationInFlight(i) /\ gpc'[i] = "done" /\ gpc[i] # "failure_write") =>
              gresponse'[i].status = "started"

C27_ReportsOnlyWhatItPersisted ==
    [](ReadyRowCarriesNoError) /\ [][AnswersOnlyWhatWasPersisted]_vars

\* one invocation answered "started" over a row that carried an earlier failure, and
\* another answered "failed" after its success write timed out
C27_Witness ==
    \E i, j \in Invocations :
        /\ gresponse[i].status = "started"
        /\ gresponse[j].status = "failed" /\ gcause[j] = "timeout"
        /\ Len(geffects[j]) = 5
        /\ grow.generation_status = "ready"

\* C29: the write set of a matcher request is determined by its ids.  A
\* request without a non-blank extracted id sets is_new_law = true on its
\* proposal and writes no link; one with at least one id writes link rows for
\* exactly the documents whose legacy_id is among the cleaned ids and leaves
\* is_new_law alone; when no document matches it is answered
\* ids_not_found_in_db and nothing is written; and nothing is written while a
\* request is rejected with 400 or 401 or while the document lookup fails.
MatchingDocuments == {d.id : d \in {x \in LegalDocuments : x.legacy_id \in SeqRange(mreq.extracted_ids)}}

NothingWritten == law_proposals' = law_proposals /\ proposal_targets' = proposal_targets

WriteSetDeterminedByIds ==
    /\ mpc \in {"idle", "responded", "await_docs"} => NothingWritten
    /\ mpc' \in {"await_docs", "await_link"} =>
          /\ mreq'.extracted_ids # <<>>
          /\ \A k \in DOMAIN mreq'.extracted_ids : mreq'.extracted_ids[k] # ""
    /\ mpc = "await_mark" =>
          /\ mreq.extracted_ids = <<>>
          /\ proposal_targets' = proposal_targets
          /\ law_proposals' \in
                {law_proposals,
                 [law_proposals EXCEPT ![mreq.proposal_id].is_new_law = TRUE]}
          /\ (mpc' = "responded" /\ mresponse'.status = "marked_as_new") =>
                law_proposals'[mreq.proposal_id].is_new_law
    /\ mpc = "await_link" =>
          /\ law_proposals' = law_proposals
          /\ \A pair \in LinkPairs :
                proposal_targets'[pair] # proposal_targets[pair] =>
                    pair[1] = mreq.proposal_id /\ pair[2] \in MatchingDocuments
          /\ (mpc' = "responded" /\ mresponse'.status = "linked") =>
                \A d \in MatchingDocuments : proposal_targets'[<<mreq.proposal_id, d>>] > 0
    /\ (mpc' = "responded" /\ mresponse'.status = "ids_not_found_in_db") =>
          mpc = "await_docs" /\ MatchingDocuments = {}
    /\ (mpc = "await_docs" /\ mpc' = "await_link") => MatchingDocuments # {}

C29_WriteSetDeterminedByIds == [][WriteSetDeterminedByIds]_vars

\* a request with the id of two documents was linked to both, its proposal is
\* not marked, and the other proposal was marked by a request without ids
C29_Witness ==
    /\ mpc = "responded"
    /\ mresponse.status = "linked"
    /\ mreq.extracted_ids = <<"LOV-2">>
    /\ LinkedPairs(proposal_targets) = {mreq.proposal_id} \X {"d2", "d3"}
    /\ ~law_proposals[mreq.proposal_id].is_new_law
    /\ \E p \in ProposalIds : law_proposals[p].is_new_law

\* C30: a proposal is marked as a new law only when its text was analysed and
\* held no law reference: a request that carries the classification
\* PARSER_FEIL and no id does not set is_new_law on its proposal.
C30_FailedFetchDoesNotMarkNewLaw ==
    [][(mreq.enforcement_date = "PARSER_FEIL" /\ mreq.extracted_ids = <<>>
          /\ mreq.proposal_id \in ProposalIds) =>
        law_proposals'[mreq.proposal_id].is_new_law
            = law_proposals[mreq.proposal_id].is_new_law]_vars


====
